---------------------------- MODULE Spec2Model ----------------------------
(***************************************************************************)
(* Coordination state machine of dpgo_ros (PGOAgentROS): cluster/leader    *)
(* formation, the command protocol of the synchronous mode, the barrier    *)
(* that gates a solver step, and the timeout / recovery monitor.           *)
(*                                                                         *)
(* Every handler of PGOAgentROS is an operator on one robot's local state  *)
(* (a record with the member variables the handler reads or writes) that   *)
(* returns the new local state and the sequence of messages it publishes.  *)
(* The actions deliver messages and fire timers / control-loop ticks.      *)
(* The base class DPGO::PGOAgent (iterate, initialize, reset, the active   *)
(* set, the neighbour status map) is an external library: the operators    *)
(* that stand for it are marked as such.                                   *)
(***************************************************************************)
EXTENDS Integers, Sequences, FiniteSets, TLC

VARIABLES
  rs,     \* rs[r]: the member variables of robot r's PGOAgentROS object
  net,    \* net[r]: the callback queue of robot r's node, in arrival order
  cfg,    \* the launch parameters (mParams / mParamsROS), fixed at Init
  now,    \* ros::Time::now(), as far as message stamps compare
  due,    \* the robots whose 3 s timer has yet to fire in this period
  cut,    \* the robots that the messages sent to are being lost
  hist,   \* hist[r]: what the properties need to know of robot r's past
  ev      \* the handler that ran last: what it was given and what it did

vars == <<rs, net, cfg, now, due, cut, hist, ev>>

(***************************************************************************)
(* Sizes                                                                   *)
(***************************************************************************)
numRobots == 3            \* mParams.numRobots
MaxIter == 4              \* cap of mIterationNumber
MaxQueue == 16            \* messages held by one callback queue
MaxTime == 1              \* cap of the stamp clock
IdleSec == 10             \* timerCallback: elapsed_sec > 10
TimeUnit == 12            \* the seconds that pass in one step of the clock

Robots == 0 .. (numRobots - 1)
Iters == 0 .. MaxIter

WAIT_FOR_DATA == "WAIT_FOR_DATA"
WAIT_FOR_INITIALIZATION == "WAIT_FOR_INITIALIZATION"
INITIALIZED == "INITIALIZED"
AgentStates == {WAIT_FOR_DATA, WAIT_FOR_INITIALIZATION, INITIALIZED}

Commands == {"REQUEST_POSE_GRAPH", "INITIALIZE", "UPDATE", "UPDATE_WEIGHT",
             "RECOVER", "TERMINATE", "HARD_TERMINATE", "SET_ACTIVE_ROBOTS",
             "NOOP"}

NoStatus == "NONE"        \* no entry in a status map
NoTime == -1              \* an empty std::optional<ros::Time>
NoMsg == [topic |-> "none"]   \* no message

(***************************************************************************)
(* Messages                                                                *)
(***************************************************************************)
CommandMsg(s, command, executing_robot, executing_iteration, active_robots) ==
  [topic |-> "command", command |-> command, publishing_robot |-> s.id,
   cluster_id |-> s.mClusterID, executing_robot |-> executing_robot,
   executing_iteration |-> executing_iteration,
   active_robots |-> active_robots]

StatusMsg(s, stamp) ==
  [topic |-> "status", robot_id |-> s.id, cluster_id |-> s.mClusterID,
   state |-> s.mState, iteration_number |-> s.mIterationNumber,
   stamp |-> stamp]

PublicPosesMsg(s, neighbor, aux) ==
  [topic |-> "public_poses", robot_id |-> s.id, cluster_id |-> s.mClusterID,
   destination_robot_id |-> neighbor,
   iteration_number |-> s.mIterationNumber, is_auxiliary |-> aux]

(***************************************************************************)
(* The robot object after construction                                     *)
(***************************************************************************)
resetRobotClusterIDs == [r \in Robots |-> r]

NewRobot(id, active) ==
  [id |-> id,
   mState |-> WAIT_FOR_DATA,
   mIterationNumber |-> 0,
   mClusterID |-> id,
   mInitStepsDone |-> 0,
   mTeamIterRequired |-> [r \in Robots |-> 0],
   mTeamIterReceived |-> [r \in Robots |-> 0],
   mTeamReceivedSharedLoopClosures |-> [r \in Robots |-> FALSE],
   mTeamConnected |-> [r \in Robots |-> TRUE],
   mTeamClusterID |-> resetRobotClusterIDs,
   mTeamStatusMsg |-> [r \in Robots |-> NoMsg],
   mTeamStatus |-> [r \in Robots |-> NoStatus],
   mTeamRobotActive |-> [r \in Robots |-> active],
   mSynchronousOptimizationRequested |-> FALSE,
   mTryInitializeRequested |-> FALSE,
   mPublishInitializeCommandRequested |-> FALSE,
   mPublishPublicPosesRequested |-> FALSE,
   mLastCommandTime |-> 0,      \* seconds elapsed since mLastCommandTime
   mLastUpdateTime |-> NoTime,  \* seconds elapsed since it, NoTime if empty
   mLastResetTime |-> 0,        \* seconds elapsed since mLastResetTime
   neighbors |-> {},
   neighborPoses |-> [r \in Robots |-> NoTime],
   hasOdometry |-> FALSE,
   measurements |-> {},
   weights |-> {},
   globalAnchor |-> FALSE,
   mCachedPoses |-> FALSE,
   dataMatrices |-> FALSE,      \* the pose graph holds its data matrices
   hung |-> FALSE]              \* the node is inside a loop it never leaves

(***************************************************************************)
(* Accessors of the robot object                                           *)
(***************************************************************************)
getClusterID(s) == s.mClusterID

isLeader(s) == s.id = getClusterID(s)

\* Every robot taken for connected.
isRobotConnectedAlways(s, robot_id) == TRUE

isRobotConnected(s, robot_id) ==
  IF robot_id \notin Robots THEN FALSE
  ELSE IF robot_id = s.id THEN TRUE
  ELSE s.mTeamConnected[robot_id]

\* DPGO::PGOAgent::isRobotActive
isRobotActive(s, robot_id) ==
  robot_id \in Robots /\ s.mTeamRobotActive[robot_id]

\* DPGO::PGOAgent::setRobotActive
setRobotActive(s, robot_id, active) ==
  IF robot_id \in Robots
  THEN [s EXCEPT !.mTeamRobotActive[robot_id] = active]
  ELSE s

\* DPGO::PGOAgent::numActiveRobots
numActiveRobots(s) == Cardinality({r \in Robots : s.mTeamRobotActive[r]})

\* DPGO::PGOAgent::hasNeighborStatus
hasNeighborStatus(s, robot_id) ==
  robot_id \in Robots /\ s.mTeamStatus[robot_id] # NoStatus

\* DPGO::PGOAgent::isRobotInitialized
isRobotInitialized(s, robot_id) ==
  hasNeighborStatus(s, robot_id) /\ s.mTeamStatus[robot_id] = INITIALIZED

\* DPGO::PGOAgent::getNeighbors: the robots this robot shares a loop closure with
getNeighbors(s) == s.neighbors

\* DPGO::PoseGraph::activeNeighborIDs
activeNeighborIDs(s) == {r \in s.neighbors : isRobotActive(s, r)}

ActiveRobotList(s) == {r \in Robots : isRobotActive(s, r)}

getRobotClusterID(s, robot_id) ==
  IF robot_id > numRobots THEN robot_id
  ELSE s.mTeamClusterID[robot_id]

setRobotClusterID(s, robot_id, cluster_id) ==
  IF robot_id > numRobots THEN s
  ELSE IF cluster_id > numRobots THEN s
  ELSE [s EXCEPT !.mTeamClusterID[robot_id] = cluster_id]

(***************************************************************************)
(* reset()                                                                 *)
(***************************************************************************)
\* A reset that keeps the iteration counter.
PGOAgent_resetKeepingCount(s) ==
  [s EXCEPT !.mState = WAIT_FOR_DATA,
            !.mTeamStatus = [r \in Robots |-> NoStatus],
            !.neighborPoses = [r \in Robots |-> NoTime],
            !.globalAnchor = FALSE,
            !.dataMatrices = FALSE,
            !.mPublishPublicPosesRequested = FALSE]

\* DPGO::PGOAgent::reset: back to WAIT_FOR_DATA, iteration 0, the neighbour
\* status map, the neighbour poses and the global anchor forgotten.
PGOAgent_reset(s) ==
  [s EXCEPT !.mState = WAIT_FOR_DATA,
            !.mIterationNumber = 0,
            !.mTeamStatus = [r \in Robots |-> NoStatus],
            !.neighborPoses = [r \in Robots |-> NoTime],
            !.globalAnchor = FALSE,
            !.dataMatrices = FALSE,
            !.mPublishPublicPosesRequested = FALSE]

\* A reset that leaves the status messages the robot holds.
resetKeepingStatus(s, completeReset) ==
  LET b == PGOAgent_reset(s)
  IN [b EXCEPT !.mSynchronousOptimizationRequested = FALSE,
               !.mTryInitializeRequested = FALSE,
               !.mInitStepsDone = 0,
               !.mTeamIterRequired = [r \in Robots |-> 0],
               !.mTeamIterReceived = [r \in Robots |-> 0],
               !.mTeamReceivedSharedLoopClosures = [r \in Robots |-> FALSE],
               !.mTeamClusterID = resetRobotClusterIDs,
               !.mLastResetTime = 0,
               !.mLastUpdateTime = NoTime]

reset(s, completeReset) ==
  LET b == PGOAgent_reset(s)
      c == [b EXCEPT !.mSynchronousOptimizationRequested = FALSE,
                     !.mTryInitializeRequested = FALSE,
                     !.mInitStepsDone = 0,
                     !.mTeamIterRequired = [r \in Robots |-> 0],
                     !.mTeamIterReceived = [r \in Robots |-> 0],
                     !.mTeamReceivedSharedLoopClosures =
                         [r \in Robots |-> FALSE],
                     !.mTeamStatusMsg = [r \in Robots |-> NoMsg]]
      d == IF completeReset
           THEN [c EXCEPT !.neighbors = {}, !.hasOdometry = FALSE,
                          !.measurements = {}, !.weights = {},
                          !.mCachedPoses = FALSE]
           ELSE c
  IN [d EXCEPT !.mTeamClusterID = resetRobotClusterIDs,
               !.mLastResetTime = 0,
               !.mLastUpdateTime = NoTime]

(***************************************************************************)
(* Publishers.  Each returns the sequence of messages it hands to ROS.     *)
(***************************************************************************)
publishStatus(s, stamp) == <<StatusMsg(s, stamp)>>

publishNoopCommand(s) == <<CommandMsg(s, "NOOP", 0, 0, {})>>

publishTerminateCommand(s) == <<CommandMsg(s, "TERMINATE", 0, 0, {})>>

publishHardTerminateCommand(s) == <<CommandMsg(s, "HARD_TERMINATE", 0, 0, {})>>

publishUpdateWeightCommand(s) == <<CommandMsg(s, "UPDATE_WEIGHT", 0, 0, {})>>

\* The recovery given up for a termination.
publishRecoverCommandAsTerminate(s) ==
  <<CommandMsg(s, "HARD_TERMINATE", 0, 0, {})>>

publishRecoverCommand(s) ==
  <<CommandMsg(s, "RECOVER", 0, s.mIterationNumber, {})>>

publishActiveRobotsCommand(s) ==
  IF ~isLeader(s) THEN <<>>
  ELSE <<CommandMsg(s, "SET_ACTIVE_ROBOTS", 0, 0, ActiveRobotList(s))>>

\* publishUpdateCommand(unsigned robot_id)
publishUpdateCommandTo(s, c, robot_id) ==
  IF c.asynchronous THEN <<>>
  ELSE IF ~isRobotActive(s, robot_id) THEN <<>>
  ELSE <<CommandMsg(s, "UPDATE", robot_id, s.mIterationNumber + 1, {})>>

\* The candidates taken among the active robots, initialized or not.
UpdateCandidatesActive(s) == {r \in Robots : isRobotActive(s, r)}

\* The robots publishUpdateCommand() chooses among.
UpdateCandidates(s) ==
  {r \in Robots : isRobotActive(s, r) /\ isRobotInitialized(s, r)}

\* The candidate of the lowest ID, wherever the scan starts.
RoundRobinFirst(s) ==
  CHOOSE r \in UpdateCandidates(s) : \A q \in UpdateCandidates(s) : r <= q

\* The round-robin scan from (getID() + 1) % numRobots: the first candidate met.
RoundRobinNext(s) ==
  LET at(k) == (s.id + 1 + k) % numRobots
      first == CHOOSE k \in 0 .. (numRobots - 1) :
                 /\ at(k) \in UpdateCandidates(s)
                 /\ \A j \in 0 .. (k - 1) : at(j) \notin UpdateCandidates(s)
  IN at(first)

\* The robots publishUpdateCommand() may select: `pick' is the draw of the
\* uniform rule.  No robot at all when there is no candidate: the round-robin
\* scan never ends and the uniform rule indexes an empty vector.
UpdateSelection(s, c) ==
  IF UpdateCandidates(s) = {} THEN {}
  ELSE IF c.updateRule = "Uniform" THEN UpdateCandidates(s)
  ELSE {RoundRobinNext(s)}

\* publishUpdateCommand() that publishes nothing.
publishUpdateCommandNever(s, c, pick) == <<>>

\* publishUpdateCommand()
publishUpdateCommand(s, c, pick) == publishUpdateCommandTo(s, c, pick)

\* setActiveRobots()
setActiveRobots(s) ==
  [s EXCEPT !.mTeamRobotActive =
     [r \in Robots |-> isRobotConnected(s, r) /\ getRobotClusterID(s, r) = s.id]]

\* updateActiveRobots(msg)
\* updateActiveRobots that activates the robots of the command and
\* deactivates none.
updateActiveRobotsAdding(s, msg) ==
  [s EXCEPT !.mTeamRobotActive =
     [r \in Robots |-> @[r] \/ r \in msg.active_robots]]

updateActiveRobots(s, msg) ==
  [s EXCEPT !.mTeamRobotActive = [r \in Robots |-> r \in msg.active_robots]]

\* publishRequestPoseGraphCommand(): the new local state and what is published
publishRequestPoseGraphCommand(s) ==
  IF ~isLeader(s) THEN [s |-> s, out |-> <<>>]
  ELSE LET a == setActiveRobots(s)
       IN IF numActiveRobots(a) = 1 THEN [s |-> a, out |-> <<>>]
          ELSE [s |-> a,
                out |-> <<CommandMsg(a, "REQUEST_POSE_GRAPH", 0, 0,
                                     ActiveRobotList(a))>>]

\* publishInitializeCommand() that does not count the command.
publishInitializeCommandUncounted(s) ==
  [s |-> [s EXCEPT !.mPublishInitializeCommandRequested = FALSE],
   out |-> <<CommandMsg(s, "INITIALIZE", 0, 0, {})>>]

\* publishInitializeCommand()
publishInitializeCommand(s) ==
  [s |-> [s EXCEPT !.mInitStepsDone = @ + 1,
                   !.mPublishInitializeCommandRequested = FALSE],
   out |-> <<CommandMsg(s, "INITIALIZE", 0, 0, {})>>]

\* publishPublicPoses(aux): one message per neighbour, none before the
\* trajectory is initialized (getSharedPoseDictWithNeighbor fails).
RECURSIVE SeqOfSet(_)
SeqOfSet(S) ==
  IF S = {} THEN <<>>
  ELSE LET x == CHOOSE y \in S : \A z \in S : y <= z
       IN <<x>> \o SeqOfSet(S \ {x})

publishPublicPoses(s, aux) ==
  IF s.mState # INITIALIZED THEN <<>>
  ELSE LET nbs == SeqOfSet(getNeighbors(s))
       IN [i \in 1 .. Len(nbs) |-> PublicPosesMsg(s, nbs[i], aux)]

publishAnchor(s) ==
  IF ~isLeader(s) THEN <<>>
  ELSE IF s.mState # INITIALIZED THEN <<>>
  ELSE IF s.id # 0 /\ ~s.globalAnchor THEN <<>>
  ELSE <<[topic |-> "anchor", robot_id |-> 0, cluster_id |-> s.mClusterID,
          iteration_number |-> s.mIterationNumber]>>

(***************************************************************************)
(* The solver and the data source, as far as the protocol sees them.       *)
(* `ch' is what the outside decides during one handler: whether the pose   *)
(* graph service answers (gotGraph), whether the local optimization        *)
(* succeeds (success), whether the frame alignment with a neighbour        *)
(* succeeds (aligned), the leader's tests shouldTerminate and              *)
(* shouldUpdateMeasurementWeights, and the draw of the uniform rule (pick).*)
(***************************************************************************)
Choices ==
  [gotGraph : BOOLEAN, success : BOOLEAN, aligned : BOOLEAN,
   terminate : BOOLEAN, updateWeight : BOOLEAN, pick : Robots]

Edge(a, b) == IF a < b THEN <<a, b>> ELSE <<b, a>>

\* The shared loop closures of robot id in the team's pose graph.
EdgesOf(graph, id) == {e \in graph : e[1] = id \/ e[2] = id}

OtherEnd(e, id) == IF e[1] = id THEN e[2] ELSE e[1]

\* iterate that leaves the iteration counter as it is.
iterateWithoutCount(s, c, doOptimization, success) == <<s, TRUE>>

\* DPGO::PGOAgent::iterate(doOptimization): the iteration counter advances;
\* an initialized robot updates its estimate, for which the pose graph
\* builds its data matrices, and asks for its public poses to be published.
\* The value is <<new state, success>>.
iterate(s, c, doOptimization, success) ==
  <<[s EXCEPT !.mIterationNumber = @ + 1,
              !.dataMatrices = @ \/ (s.mState = INITIALIZED /\ doOptimization),
              !.mPublishPublicPosesRequested =
                 IF s.mState = INITIALIZED /\ (doOptimization \/ c.acceleration)
                 THEN TRUE ELSE @],
    IF s.mState = INITIALIZED /\ doOptimization THEN success ELSE TRUE>>

\* requestPoseGraph(): <<new state, whether a pose graph was received>>
requestPoseGraph(s, c, gotGraph) ==
  IF ~gotGraph THEN <<s, FALSE>>
  ELSE <<[s EXCEPT
            !.measurements = @ \cup EdgesOf(c.graph, s.id),
            !.neighbors = @ \cup {OtherEnd(e, s.id) : e \in EdgesOf(c.graph, s.id)},
            !.hasOdometry = TRUE,
            !.mTeamReceivedSharedLoopClosures =
               IF c.synchronizeMeasurements
               THEN [r \in Robots |-> r = s.id]
               ELSE [r \in Robots |-> TRUE],
            !.mTryInitializeRequested = TRUE],
          TRUE>>

\* tryInitialize()
tryInitialize(s) ==
  LET ready == \A robot_id \in 0 .. (s.id - 1) :
                 isRobotActive(s, robot_id)
                   => s.mTeamReceivedSharedLoopClosures[robot_id]
      \* DPGO::PGOAgent::initialize, then the leader's initializeInGlobalFrame
      inGlobalFrame == isLeader(s) /\ (s.id = 0 \/ s.mCachedPoses)
  IN IF ~ready THEN s
     ELSE [s EXCEPT !.mState = IF inGlobalFrame THEN INITIALIZED
                                ELSE IF @ = WAIT_FOR_DATA
                                     THEN WAIT_FOR_INITIALIZATION ELSE @,
                    !.globalAnchor = IF inGlobalFrame /\ s.id # 0 THEN TRUE ELSE @,
                    !.mTryInitializeRequested = FALSE]

AllEdges == {e \in Robots \X Robots : e[1] < e[2]}

\* publishPublicMeasurements(): one list per robot of the team
publishPublicMeasurements(s, c) ==
  IF ~c.synchronizeMeasurements THEN <<>>
  ELSE [i \in 1 .. numRobots |->
          [topic |-> "public_measurements", from_robot |-> s.id,
           from_cluster |-> s.mClusterID, to_robot |-> i - 1,
           edges |-> {e \in s.measurements : OtherEnd(e, s.id) = i - 1}]]

\* publishMeasurementWeights() with one message per robot of a lower ID.
publishMeasurementWeightsDownward(s) ==
  LET others == SeqOfSet({OtherEnd(e, s.id) : e \in s.measurements}
                           \cap {r \in Robots : r < s.id})
  IN [i \in 1 .. Len(others) |->
        [topic |-> "measurement_weights", robot_id |-> s.id,
         cluster_id |-> s.mClusterID, destination_robot_id |-> others[i],
         entries |-> {[edge |-> e, weight |-> IF e \in s.weights THEN 0 ELSE 1]
                        : e \in {f \in s.measurements :
                                   OtherEnd(f, s.id) = others[i]}}]]

\* publishMeasurementWeights(): one message per robot of a higher ID that
\* shares a loop closure with this robot
publishMeasurementWeights(s) ==
  LET others == SeqOfSet({OtherEnd(e, s.id) : e \in s.measurements}
                           \cap {r \in Robots : r > s.id})
  IN [i \in 1 .. Len(others) |->
        [topic |-> "measurement_weights", robot_id |-> s.id,
         cluster_id |-> s.mClusterID, destination_robot_id |-> others[i],
         entries |-> {[edge |-> e, weight |-> IF e \in s.weights THEN 0 ELSE 1]
                        : e \in {f \in s.measurements :
                                   OtherEnd(f, s.id) = others[i]}}]]

(***************************************************************************)
(* commandCallback.  The value of a handler is a record: s the new local   *)
(* state, out the messages published in order, step what solver step it    *)
(* took: "none", "passive" for iterate(false), "optimize" for              *)
(* iterate(true), and success what that step returned.                     *)
(***************************************************************************)
Done(s, out) == [s |-> s, out |-> out, step |-> "none", success |-> TRUE]

onRequestPoseGraph(s0, c, msg, ch, stamp) ==
  IF msg.publishing_robot # getClusterID(s0) THEN Done(s0, <<>>)
  ELSE
    LET s1 == IF s0.mState # WAIT_FOR_DATA THEN reset(s0, c.completeReset)
              ELSE s0
        s2 == updateActiveRobots(s1, msg)
        rq == requestPoseGraph(s2, c, ch.gotGraph)
        s3 == rq[1]
        received_pose_graph == rq[2]
        ini == publishInitializeCommand(s3)
    IN IF ~isLeader(s3) THEN Done(s3, publishStatus(s3, stamp))
       ELSE IF ~received_pose_graph
            THEN Done(s3, publishStatus(s3, stamp)
                            \o publishHardTerminateCommand(s3))
            ELSE Done(ini.s, publishStatus(s3, stamp) \o publishAnchor(s3)
                               \o ini.out)

\* storeOptimizedTrajectory() that stores nothing.
storeOptimizedTrajectoryNever(s) == s

storeOptimizedTrajectory(s) ==
  IF s.mState = INITIALIZED THEN [s EXCEPT !.mCachedPoses = TRUE] ELSE s

onTerminate(s0, c, msg) ==
  IF ~isRobotActive(s0, s0.id) THEN Done(reset(s0, c.completeReset), <<>>)
  ELSE Done(reset(storeOptimizedTrajectory(s0), c.completeReset),
            IF c.robustGNC THEN publishMeasurementWeights(s0) ELSE <<>>)

onHardTerminate(s0, c, msg) == Done(reset(s0, c.completeReset), <<>>)

\* The leader's poll of the active robots' last status in INITIALIZE.
all_initialized(s) ==
  \A robot_id \in Robots :
    isRobotActive(s, robot_id) =>
      /\ hasNeighborStatus(s, robot_id)
      /\ s.mTeamStatus[robot_id] \notin {WAIT_FOR_DATA, WAIT_FOR_INITIALIZATION}

\* The count of the active robots whose status is available, initialized
\* or not.
num_reporting_robots(s) ==
  Cardinality({robot_id \in Robots :
                 isRobotActive(s, robot_id) /\ hasNeighborStatus(s, robot_id)})

num_initialized_robots(s) ==
  Cardinality({robot_id \in Robots :
                 /\ isRobotActive(s, robot_id)
                 /\ hasNeighborStatus(s, robot_id)
                 /\ s.mTeamStatus[robot_id] = INITIALIZED})

\* Set robots that are not initialized (or not connected) to inactive.
keepInitializedRobots(s) ==
  [s EXCEPT !.mTeamRobotActive =
     [r \in Robots |-> /\ isRobotActive(s, r)
                       /\ isRobotInitialized(s, r)
                       /\ isRobotConnected(s, r)]]

onInitialize(s0, c, msg, stamp) ==
  IF msg.publishing_robot # getClusterID(s0) THEN Done(s0, <<>>)
  ELSE
    LET pub == publishPublicMeasurements(s0, c)
                 \o publishPublicPoses(s0, FALSE) \o publishStatus(s0, stamp)
    IN IF ~isLeader(s0) THEN Done(s0, pub)
       ELSE
         LET pub2 == pub \o publishActiveRobotsCommand(s0)
         IN IF ~all_initialized(s0)
               /\ s0.mInitStepsDone <= c.maxDistributedInitSteps
            THEN Done([s0 EXCEPT !.mPublishInitializeCommandRequested = TRUE],
                      pub2)
            ELSE IF num_initialized_robots(s0) > 1
                 THEN LET s1 == keepInitializedRobots(s0)
                      IN Done(s1, pub2 \o publishActiveRobotsCommand(s1)
                                    \o publishUpdateCommandTo(s1, c, s1.id))
                 ELSE Done(s0, pub2 \o publishHardTerminateCommand(s0))

\* UPDATE acted on by a robot whatever its state.
onUpdateUnguarded(s0, c, msg, stamp) ==
  IF ~isRobotActive(s0, s0.id) THEN Done(s0, <<>>)
  ELSE
    LET s1 == [s0 EXCEPT !.mTeamIterRequired[msg.executing_robot] =
                            msg.executing_iteration]
    IN IF msg.executing_robot = s1.id
       THEN Done([s1 EXCEPT !.mSynchronousOptimizationRequested = TRUE], <<>>)
       ELSE LET it == iterate(s1, c, FALSE, TRUE)
            IN [s |-> it[1], out |-> publishStatus(it[1], stamp),
                step |-> "passive", success |-> it[2]]

\* UPDATE that makes every robot it does not name optimize in the handler.
onUpdateOptimizing(s0, c, msg, stamp) ==
  IF ~isRobotActive(s0, s0.id) THEN Done(s0, <<>>)
  ELSE IF s0.mState # INITIALIZED THEN Done(s0, <<>>)
  ELSE
    LET s1 == [s0 EXCEPT !.mTeamIterRequired[msg.executing_robot] =
                            msg.executing_iteration]
    IN IF msg.executing_robot = s1.id
       THEN Done([s1 EXCEPT !.mSynchronousOptimizationRequested = TRUE], <<>>)
       ELSE LET it == iterate(s1, c, TRUE, TRUE)
            IN [s |-> it[1], out |-> publishStatus(it[1], stamp),
                step |-> "optimize", success |-> it[2]]

onUpdate(s0, c, msg, stamp) ==
  IF ~isRobotActive(s0, s0.id) THEN Done(s0, <<>>)
  ELSE IF s0.mState # INITIALIZED THEN Done(s0, <<>>)
  ELSE
    LET s1 == [s0 EXCEPT !.mTeamIterRequired[msg.executing_robot] =
                            msg.executing_iteration]
    IN IF msg.executing_robot = s1.id
       THEN Done([s1 EXCEPT !.mSynchronousOptimizationRequested = TRUE], <<>>)
       ELSE \* Agents that are not selected for optimization can iterate
            \* immediately
            LET it == iterate(s1, c, FALSE, TRUE)
            IN [s |-> it[1], out |-> publishStatus(it[1], stamp),
                step |-> "passive", success |-> it[2]]

\* RECOVER that takes over the iteration of the command and leaves what the
\* robot holds of its neighbours' iterations.
onRecoverWithoutResync(s0, c, msg) ==
  IF ~isRobotActive(s0, s0.id) \/ s0.mState # INITIALIZED THEN Done(s0, <<>>)
  ELSE
    LET s1 == [s0 EXCEPT !.mIterationNumber = msg.executing_iteration,
                         !.mSynchronousOptimizationRequested = FALSE]
    IN IF isLeader(s1) THEN Done(s1, publishUpdateCommandTo(s1, c, s1.id))
       ELSE Done(s1, <<>>)

onRecover(s0, c, msg) ==
  IF ~isRobotActive(s0, s0.id) \/ s0.mState # INITIALIZED THEN Done(s0, <<>>)
  ELSE
    LET s1 == [s0 EXCEPT !.mIterationNumber = msg.executing_iteration,
                         !.mSynchronousOptimizationRequested = FALSE]
        s2 == [s1 EXCEPT
                 !.mTeamIterRequired =
                    [r \in Robots |-> IF r \in getNeighbors(s1)
                                      THEN s1.mIterationNumber ELSE @[r]],
                 !.mTeamIterReceived =
                    [r \in Robots |-> IF r \in getNeighbors(s1)
                                      THEN 0 ELSE @[r]]]
    IN IF isLeader(s2) THEN Done(s2, publishUpdateCommandTo(s2, c, s2.id))
       ELSE Done(s2, <<>>)

onUpdateWeight(s0, c, msg, ch, stamp) ==
  IF ~isRobotActive(s0, s0.id) THEN Done(s0, <<>>)
  ELSE
    LET s1 == [s0 EXCEPT
                 !.mTeamIterRequired =
                    [r \in Robots |-> IF r \in getNeighbors(s0)
                                      THEN s0.mIterationNumber ELSE @[r]]]
        pub == publishMeasurementWeights(s1)
                 \o publishPublicPoses(s1, FALSE)
                 \o (IF c.acceleration THEN publishPublicPoses(s1, TRUE)
                     ELSE <<>>)
                 \o publishStatus(s1, stamp)
    IN IF ~isLeader(s1) THEN Done(s1, pub)
       ELSE IF UpdateSelection(s1, c) = {}
            THEN Done([s1 EXCEPT !.hung = TRUE], pub)
            ELSE Done(s1, pub \o publishUpdateCommand(s1, c, ch.pick))

onSetActiveRobots(s0, msg) ==
  IF msg.publishing_robot # getClusterID(s0) THEN Done(s0, <<>>)
  ELSE Done(updateActiveRobots(s0, msg), <<>>)

\* The switch of commandCallback, after the cluster check and the update of
\* mLastCommandTime.
dispatchCommand(s, c, msg, ch, stamp) ==
  CASE msg.command = "REQUEST_POSE_GRAPH" ->
         onRequestPoseGraph(s, c, msg, ch, stamp)
    [] msg.command = "TERMINATE" -> onTerminate(s, c, msg)
    [] msg.command = "HARD_TERMINATE" -> onHardTerminate(s, c, msg)
    [] msg.command = "INITIALIZE" -> onInitialize(s, c, msg, stamp)
    [] msg.command = "UPDATE" -> onUpdate(s, c, msg, stamp)
    [] msg.command = "RECOVER" -> onRecover(s, c, msg)
    [] msg.command = "UPDATE_WEIGHT" -> onUpdateWeight(s, c, msg, ch, stamp)
    [] msg.command = "SET_ACTIVE_ROBOTS" -> onSetActiveRobots(s, msg)
    [] OTHER -> Done(s, <<>>)

\* A command admitted whatever its cluster tag.
commandAdmittedAlways(s, msg) == TRUE

\* Whether the command passes the admission check of its cluster tag.
commandAdmitted(s, msg) == msg.cluster_id = getClusterID(s)

\* commandCallback that does not record the time of the command.
commandCallbackUnstamped(s, c, msg, ch, stamp) ==
  IF ~commandAdmitted(s, msg) THEN Done(s, <<>>)
  ELSE dispatchCommand(s, c, msg, ch, stamp)

commandCallback(s, c, msg, ch, stamp) ==
  IF ~commandAdmitted(s, msg) THEN Done(s, <<>>)
  ELSE LET s1 == IF msg.command # "NOOP" /\ msg.command # "SET_ACTIVE_ROBOTS"
                 THEN [s EXCEPT !.mLastCommandTime = 0]
                 ELSE s
       IN dispatchCommand(s1, c, msg, ch, stamp)

(***************************************************************************)
(* statusCallback                                                          *)
(***************************************************************************)
\* No status taken for outdated.
statusNeverOutdated(s, msg) == FALSE

\* Ignore message with outdated timestamp
statusIsOutdated(s, msg) ==
  /\ s.mTeamStatusMsg[msg.robot_id] # NoMsg
  /\ s.mTeamStatusMsg[msg.robot_id].stamp > msg.stamp

\* DPGO::PGOAgent::setNeighborStatus
setNeighborStatus(s, msg) == [s EXCEPT !.mTeamStatus[msg.robot_id] = msg.state]

\* The status of a robot installed whatever its cluster tag.
statusInstalledAlways(s, msg) == TRUE

\* Whether the status of a robot in the cluster is installed as its
\* neighbour status.
statusInstalled(s, msg) == msg.cluster_id = getClusterID(s)

statusCallback(s0, c, msg) ==
  IF statusIsOutdated(s0, msg) THEN Done(s0, <<>>)
  ELSE
    LET s1 == [s0 EXCEPT !.mTeamStatusMsg[msg.robot_id] = msg]
        s2 == setRobotClusterID(s1, msg.robot_id, msg.cluster_id)
        s3 == IF statusInstalled(s2, msg) THEN setNeighborStatus(s2, msg)
              ELSE s2
        should_deactivate ==
          \/ msg.cluster_id # getClusterID(s3)
          \/ (s3.mIterationNumber > 0 /\ msg.state # INITIALIZED)
    IN IF ~c.asynchronous /\ isLeader(s3) /\ isRobotActive(s3, msg.robot_id)
          /\ should_deactivate
       THEN LET s4 == setRobotActive(s3, msg.robot_id, FALSE)
            IN Done(s4, publishActiveRobotsCommand(s4))
       ELSE Done(s3, <<>>)

(***************************************************************************)
(* connectivityCallback                                                    *)
(***************************************************************************)
\* connectivityCallback that joins the cluster of the lowest connected robot
\* at once.
connectivityCallbackJoining(s, connected_ids) ==
  [s EXCEPT !.mTeamConnected =
              [robot_id \in Robots |->
                 robot_id = s.id \/ robot_id \in connected_ids],
            !.mClusterID =
              CHOOSE robot_id \in connected_ids \cup {s.id} :
                \A other \in connected_ids \cup {s.id} : robot_id <= other]

connectivityCallback(s, connected_ids) ==
  [s EXCEPT !.mTeamConnected =
     [robot_id \in Robots |-> robot_id = s.id \/ robot_id \in connected_ids]]

(***************************************************************************)
(* updateCluster                                                           *)
(***************************************************************************)
\* Every robot its own leader, whatever it is connected to.
updateClusterOwn(s) == [s EXCEPT !.mClusterID = s.id]

\* The scan without its break: the last robot_id that is connected.
updateClusterNoBreak(s) ==
  [s EXCEPT !.mClusterID =
     CHOOSE robot_id \in Robots :
       /\ isRobotConnected(s, robot_id)
       /\ \A higher \in (robot_id + 1) .. (numRobots - 1) :
            ~isRobotConnected(s, higher)]

\* The first robot_id of the scan 0, 1, ... that is connected.
updateCluster(s) ==
  LET connected == {robot_id \in Robots : isRobotConnected(s, robot_id)}
  IN IF connected = {} THEN s
     ELSE [s EXCEPT !.mClusterID =
             CHOOSE robot_id \in connected :
               \A lower \in 0 .. (robot_id - 1) : lower \notin connected]

(***************************************************************************)
(* Pose, measurement and weight handlers                                   *)
(***************************************************************************)
\* A pose, measurement or weight message admitted whatever its cluster tag.
dataAdmittedAlways(s, cluster_id) == TRUE

\* Whether an anchor, pose, measurement or weight message passes the check
\* of its cluster tag.
dataAdmitted(s, cluster_id) == cluster_id = getClusterID(s)

anchorCallback(s, msg) ==
  IF msg.robot_id # 0 THEN s
  ELSE IF ~dataAdmitted(s, msg.cluster_id) THEN s
  ELSE [s EXCEPT !.globalAnchor = TRUE]

\* publicPosesCallback; DPGO::PGOAgent::updateNeighborPoses initializes a
\* robot in WAIT_FOR_INITIALIZATION in the frame of the sender when the
\* alignment succeeds.
publicPosesCallback(s, msg, aligned) ==
  IF ~dataAdmitted(s, msg.cluster_id) THEN s
  ELSE IF msg.robot_id \notin getNeighbors(s) THEN s
  ELSE [s EXCEPT !.neighborPoses[msg.robot_id] = msg.iteration_number,
                 !.mState = IF @ = WAIT_FOR_INITIALIZATION /\ aligned
                               /\ ~msg.is_auxiliary
                            THEN INITIALIZED ELSE @,
                 !.mTeamIterReceived[msg.robot_id] = msg.iteration_number]

publicMeasurementsCallback(s, msg) ==
  IF msg.to_robot # s.id THEN s
  ELSE IF ~s.hasOdometry THEN s
  ELSE IF s.mTeamReceivedSharedLoopClosures[msg.from_robot] THEN s
  ELSE IF ~dataAdmitted(s, msg.from_cluster) THEN s
  ELSE [s EXCEPT !.mTeamReceivedSharedLoopClosures[msg.from_robot] = TRUE,
                 !.measurements =
                    @ \cup {e \in msg.edges : e[1] = s.id \/ e[2] = s.id},
                 !.neighbors =
                    @ \cup {OtherEnd(e, s.id) :
                              e \in {f \in msg.edges :
                                       f[1] = s.id \/ f[2] = s.id}}]

\* Every entry of a weight message applied, whatever robots it names.
weightAppliesToAny(s, entry) == TRUE

\* One entry of a weight message: applied when the other robot of the
\* measurement is active and has a lower ID and the measurement is known.
weightApplies(s, entry) ==
  /\ entry.edge[1] = s.id \/ entry.edge[2] = s.id
  /\ isRobotActive(s, OtherEnd(entry.edge, s.id))
  /\ OtherEnd(entry.edge, s.id) < s.id
  /\ entry.edge \in s.measurements

measurementWeightsCallback(s, msg) ==
  IF msg.destination_robot_id # s.id THEN s
  ELSE IF ~dataAdmitted(s, msg.cluster_id) THEN s
  ELSE LET applied == {en \in msg.entries : weightApplies(s, en)}
           weights_updated == applied # {}
       IN [s EXCEPT !.weights =
             (@ \ {en.edge : en \in {x \in applied : x.weight = 1}})
               \cup {en.edge : en \in {x \in applied : x.weight = 0}},
                    \* mPoseGraph->clearDataMatrices()
                    !.dataMatrices = @ /\ ~weights_updated]

(***************************************************************************)
(* timerCallback                                                           *)
(***************************************************************************)
\* The state in which timerCallback tests mState == WAIT_FOR_DATA: after the
\* requested INITIALIZE command and the requested tryInitialize.
timerRequests(s0) ==
  LET ini == IF s0.mPublishInitializeCommandRequested
             THEN publishInitializeCommand(s0)
             ELSE [s |-> s0, out |-> <<>>]
  IN [s |-> IF ini.s.mTryInitializeRequested THEN tryInitialize(ini.s)
            ELSE ini.s,
      out |-> ini.out]

\* Whether this timerCallback calls updateCluster.
timerScans(s0) == timerRequests(s0).s.mState = WAIT_FOR_DATA

timerCallback(s0, c, stamp) ==
  LET ini == timerRequests(s0)
      s2 == ini.s
      s3 == IF timerScans(s0) THEN updateCluster(s2) ELSE s2
      req == IF timerScans(s0) /\ isLeader(s3)
                /\ s3.mLastResetTime > IdleSec
             THEN publishRequestPoseGraphCommand(s3)
             ELSE [s |-> s3, out |-> <<>>]
      s4 == req.s
      periodic ==
        IF s4.mState = INITIALIZED
        THEN publishPublicPoses(s4, FALSE)
               \o (IF c.acceleration THEN publishPublicPoses(s4, TRUE)
                   ELSE <<>>)
               \o publishMeasurementWeights(s4)
               \o (IF isLeader(s4)
                   THEN publishAnchor(s4) \o publishActiveRobotsCommand(s4)
                   ELSE <<>>)
        ELSE <<>>
  IN Done(s4, publishNoopCommand(s0) \o ini.out \o req.out \o periodic
                \o publishStatus(s4, stamp))

(***************************************************************************)
(* runOnce: runOnceSynchronous, the requested publication of the public    *)
(* poses, checkTimeout                                                     *)
(***************************************************************************)
\* The iteration of neighbor the robot must have received to step.
requiredIter(s, c, neighbor) ==
  (IF c.acceleration THEN s.mIterationNumber + 1
   ELSE s.mTeamIterRequired[neighbor]) - c.maxDelayedIterations

\* `ready' that waits for no neighbour.
readyAtOnce(s, c) == TRUE

\* `ready' of runOnceSynchronous
ready(s, c) ==
  \A neighbor \in activeNeighborIDs(s) :
    ~(s.mTeamIterReceived[neighbor] < requiredIter(s, c, neighbor))

\* The requested iterate performed without waiting for the neighbours.
stepAllowedUnchecked(s, c) == s.mSynchronousOptimizationRequested

\* Whether runOnceSynchronous performs the requested iterate.
stepAllowed(s, c) == s.mSynchronousOptimizationRequested /\ ready(s, c)

\* DPGO::PGOAgent::shouldTerminate: the iteration limit is reached, or the
\* team's convergence test says so.
shouldTerminate(s, c, ch) == s.mIterationNumber > c.maxNumIters \/ ch.terminate

runOnceSynchronous(s0, c, ch, stamp) ==
  IF ~stepAllowed(s0, c) THEN Done(s0, <<>>)
  ELSE
    LET it == iterate(s0, c, TRUE, ch.success)
        success == it[2]
        s1 == [it[1] EXCEPT !.mSynchronousOptimizationRequested = FALSE,
                            !.mLastUpdateTime = IF success THEN 0 ELSE @]
        pub == publishAnchor(s1) \o publishStatus(s1, stamp)
        command ==
          IF isLeader(s1) /\ shouldTerminate(s1, c, ch)
          THEN publishTerminateCommand(s1)
          ELSE IF isLeader(s1) /\ ch.updateWeight
               THEN publishUpdateWeightCommand(s1)
               ELSE publishUpdateCommand(s1, c, ch.pick)
        selects ==
          ~(isLeader(s1) /\ (shouldTerminate(s1, c, ch) \/ ch.updateWeight))
    IN IF selects /\ UpdateSelection(s1, c) = {}
       THEN [s |-> [s1 EXCEPT !.hung = TRUE], out |-> pub,
             step |-> "optimize", success |-> success]
       ELSE [s |-> s1, out |-> pub \o command,
             step |-> "optimize", success |-> success]

\* checkDisconnectedRobot(): the active robots that are disconnected
disconnectedRobots(s) ==
  {robot_id \in Robots :
     isRobotActive(s, robot_id) /\ ~isRobotConnected(s, robot_id)}

\* checkDisconnectedRobot() that leaves the disconnected robots active.
checkNoDisconnectedRobot(s) == s

checkDisconnectedRobot(s) ==
  [s EXCEPT !.mTeamRobotActive =
     [r \in Robots |-> @[r] /\ r \notin disconnectedRobots(s)]]

\* Whether the hard timeout of checkTimeout fires.
hardTimeout(s, c) ==
  /\ s.mState = INITIALIZED /\ s.mIterationNumber > 0
  /\ s.mLastUpdateTime # NoTime
  /\ s.mLastUpdateTime > 3 * c.timeoutThreshold

\* The first half of checkTimeout: the command channel was quiet for long.
commandTimeout(s0, c) ==
  IF ~(s0.mLastCommandTime > c.timeoutThreshold) THEN [s |-> s0, out |-> <<>>]
  ELSE
    LET r ==
      IF s0.mState = INITIALIZED /\ s0.mIterationNumber > 0
      THEN IF isLeader(s0)
           THEN LET s1 == checkDisconnectedRobot(s0)
                    pub == IF disconnectedRobots(s0) # {}
                           THEN publishActiveRobotsCommand(s1) ELSE <<>>
                IN IF numActiveRobots(s1) > 1 /\ c.enableRecovery
                   THEN [s |-> s1, out |-> pub \o publishRecoverCommand(s1)]
                   ELSE [s |-> s1,
                         out |-> pub \o publishHardTerminateCommand(s1)]
           ELSE IF ~isRobotConnected(s0, getClusterID(s0))
                THEN [s |-> reset(s0, c.completeReset), out |-> <<>>]
                ELSE [s |-> s0, out |-> <<>>]
      ELSE LET s1 == reset(s0, c.completeReset)
           IN [s |-> s1,
               out |-> IF isLeader(s1) THEN publishHardTerminateCommand(s1)
                       ELSE <<>>]
    IN [s |-> [r.s EXCEPT !.mLastCommandTime = 0], out |-> r.out]

checkTimeout(s0, c) ==
  IF c.asynchronous THEN [s |-> s0, out |-> <<>>]
  ELSE LET a == commandTimeout(s0, c)
       IN IF hardTimeout(a.s, c)
          THEN [s |-> reset(a.s, c.completeReset),
                out |-> a.out \o (IF isLeader(a.s)
                                  THEN publishHardTerminateCommand(a.s)
                                  ELSE <<>>)]
          ELSE a

runOnce(s0, c, ch, stamp) ==
  LET a == runOnceSynchronous(s0, c, ch, stamp)
      poses == IF a.s.mPublishPublicPosesRequested
               THEN publishPublicPoses(a.s, FALSE)
                      \o (IF c.acceleration THEN publishPublicPoses(a.s, TRUE)
                          ELSE <<>>)
               ELSE <<>>
      s1 == [a.s EXCEPT !.mPublishPublicPosesRequested = FALSE]
      b == checkTimeout(s1, c)
  IN IF a.s.hung THEN a
     ELSE [s |-> b.s, out |-> a.out \o poses \o b.out,
           step |-> a.step, success |-> a.success]

(***************************************************************************)
(* The ROS connections.  Every robot subscribes to the command, status,    *)
(* public_poses, anchor and public_measurements topics of every robot      *)
(* (itself included) and to the measurement_weights topic of the robots    *)
(* of a lower ID.  The callbacks of a node run one at a time in the order   *)
(* the messages arrived; a message that arrives at a full queue is lost.    *)
(***************************************************************************)
Topics == {"command", "status", "public_poses", "anchor",
           "public_measurements", "measurement_weights"}

\* The subscribers a message of robot `from' is queued for.  A list of
\* measurements is dropped at once by every robot but to_robot, and a weight
\* message by every robot but destination_robot_id.
Subscribers(from, msg) ==
  CASE msg.topic = "public_measurements" -> {msg.to_robot}
    [] msg.topic = "measurement_weights" ->
         {r \in {msg.destination_robot_id} : r > from}
    [] OTHER -> Robots

\* A message sent to a robot of `lost' over the network does not arrive.
Enqueue(n, from, msg, c, lost) ==
  [to \in Robots |->
     IF /\ to \in Subscribers(from, msg)
        /\ to \in c.launched
        /\ msg.topic \in c.topics
        /\ (to \in lost => to = from)
        /\ Len(n[to]) < MaxQueue
     THEN Append(n[to], msg)
     ELSE n[to]]

RECURSIVE Publish(_, _, _, _, _)
Publish(n, from, out, c, lost) ==
  IF out = <<>> THEN n
  ELSE Publish(Enqueue(n, from, Head(out), c, lost), from, Tail(out), c, lost)

Dequeue(n, to) == [n EXCEPT ![to] = Tail(@)]

(***************************************************************************)
(* Actions                                                                 *)
(***************************************************************************)
\* origin: "net" for a message a robot of the team published, "env" for one
\* that comes from outside the team.
Event(kind, robot, msg, res, origin) ==
  [kind |-> kind, robot |-> robot, msg |-> msg, out |-> res.out,
   step |-> res.step, success |-> res.success, origin |-> origin]

Quiet(kind, robot) ==
  [kind |-> kind, robot |-> robot, msg |-> NoMsg, out |-> <<>>,
   step |-> "none", success |-> TRUE, origin |-> "net"]

\* What the outside decides, with the decisions a handler does not ask for
\* left at their default.
DefaultChoice ==
  [gotGraph |-> TRUE, success |-> TRUE, aligned |-> TRUE,
   terminate |-> FALSE, updateWeight |-> FALSE, pick |-> 0]

\* Whether the messages `out' hold the command `command'.
Emits(out, command) ==
  \E i \in DOMAIN out :
    out[i].topic = "command" /\ out[i].command = command

\* hist[r].scanned: robot r has called updateCluster since its connectivity
\* last changed.  hist[r].stall: the seconds for which robot r has been
\* INITIALIZED with mIterationNumber > 0 without a successful iterate(true),
\* NoTime when it is not in that situation.  hist[r].gaveUp: robot r has
\* published HARD_TERMINATE in its INITIALIZE handler and has not been
\* reset since.  hist[r].named: the executing robots of the last UPDATE
\* commands published in the cluster of robot r, the oldest first, with
\* Restart where RECOVER was published, since robot r was last reset or
\* changed its active robots.
Restart == numRobots

NamedAfter(named, executing_robot) ==
  LET all == Append(named, executing_robot)
  IN IF Len(all) > 2 * (numRobots + 1) THEN Tail(all) ELSE all

RECURSIVE PublishedTurns(_, _)
PublishedTurns(named, out) ==
  IF out = <<>> THEN named
  ELSE LET m == Head(out)
           next == IF m.topic # "command" THEN named
                   ELSE IF m.command = "UPDATE"
                        THEN NamedAfter(named, m.executing_robot)
                   ELSE IF m.command = "RECOVER"
                        THEN NamedAfter(named, Restart)
                   ELSE named
       IN PublishedTurns(next, Tail(out))

HistAfter(h, kind, msg, pre, res) ==
  [scanned |-> h.scanned \/ (kind = "timer" /\ timerScans(pre)),
   gaveUp |->
     IF res.s.mState = WAIT_FOR_DATA THEN FALSE
     ELSE \/ h.gaveUp
          \/ /\ kind = "command" /\ msg.command = "INITIALIZE"
             /\ Emits(res.out, "HARD_TERMINATE"),
   named |->
     IF \/ res.s.mState = WAIT_FOR_DATA
        \/ ActiveRobotList(res.s) # ActiveRobotList(pre)
     THEN <<>> ELSE h.named,
   stall |->
     IF res.s.mState # INITIALIZED \/ res.s.mIterationNumber = 0 THEN NoTime
     ELSE IF res.step = "optimize" /\ res.success THEN 0
     ELSE IF h.stall = NoTime THEN 0
     ELSE h.stall]

\* The history after the handler of robot r: its own, and the turns it has
\* published in that of the leader of its cluster.
TeamHist(h, r, kind, msg, pre, res) ==
  [q \in Robots |->
     LET own == IF q = r THEN HistAfter(h[q], kind, msg, pre, res) ELSE h[q]
     IN IF q = res.s.mClusterID
        THEN [own EXCEPT !.named = PublishedTurns(@, res.out)]
        ELSE own]

\* A handler's effect on robot r: its new state, its publications queued.
\* `result' is what the handler returns, computed once.
Handle(r, kind, msg, result, n) ==
  \E res \in {result} :
    /\ res.s.mIterationNumber <= MaxIter
    /\ rs' = [rs EXCEPT ![r] = res.s]
    /\ net' = Publish(n, r, res.out, cfg, cut)
    /\ hist' = TeamHist(hist, r, kind, msg, rs[r], res)
    /\ ev' = Event(kind, r, msg, res, "net")

\* The node of robot r was launched and is not inside a loop it never leaves.
Running(r) == r \in cfg.launched /\ ~rs[r].hung

\* Whether a pass of robot r's loop has something to do.
RunOnceActs(r) ==
  \/ stepAllowed(rs[r], cfg)
  \/ rs[r].mPublishPublicPosesRequested
  \/ checkTimeout(rs[r], cfg) # [s |-> rs[r], out |-> <<>>]

\* Whether robot r has a message to handle or a pass of its loop to make.
Busy(r) == Running(r) /\ (net[r] # <<>> \/ RunOnceActs(r))

\* The nodes run on different machines, so a step of one commutes with a
\* step of another: the steps of the node of the lowest ID are taken first.
Turn(r) == \A q \in 0 .. (r - 1) : ~Busy(q)

\* No robot has anything to do before time passes or a timer fires.
AllQuiet == \A q \in Robots : ~Busy(q)

\* The message robot `to' handles next.
Arrived(to, topic) ==
  /\ Running(to)
  /\ Turn(to)
  /\ net[to] # <<>>
  /\ Head(net[to]).topic = topic

CommandChoices(s, msg) ==
  {ch \in Choices :
     /\ ch.success = TRUE /\ ch.aligned = TRUE
     /\ ch.terminate = FALSE /\ ch.updateWeight = FALSE
     /\ IF msg.command = "REQUEST_POSE_GRAPH" THEN ch.gotGraph => cfg.service
        ELSE ch.gotGraph = TRUE
     /\ IF msg.command = "UPDATE_WEIGHT" /\ isLeader(s)
           /\ isRobotActive(s, s.id) /\ UpdateSelection(s, cfg) # {}
        THEN ch.pick \in UpdateSelection(s, cfg)
        ELSE ch.pick = 0}

DeliverCommand(to) ==
  /\ Arrived(to, "command")
  /\ \E ch \in CommandChoices(rs[to], Head(net[to])) :
       Handle(to, "command", Head(net[to]),
              commandCallback(rs[to], cfg, Head(net[to]), ch, now),
              Dequeue(net, to))
  /\ UNCHANGED <<cfg, now, due, cut>>

DeliverStatus(to) ==
  /\ Arrived(to, "status")
  /\ Handle(to, "status", Head(net[to]),
            statusCallback(rs[to], cfg, Head(net[to])), Dequeue(net, to))
  /\ UNCHANGED <<cfg, now, due, cut>>

\* The alignment with the neighbour's frame is tried while the robot waits
\* for its initialization, and may fail.
AlignChoices(s) ==
  IF s.mState = WAIT_FOR_INITIALIZATION THEN BOOLEAN ELSE {TRUE}

DeliverPublicPoses(to) ==
  /\ Arrived(to, "public_poses")
  /\ \E aligned \in AlignChoices(rs[to]) :
       Handle(to, "public_poses", Head(net[to]),
              Done(publicPosesCallback(rs[to], Head(net[to]), aligned), <<>>),
              Dequeue(net, to))
  /\ UNCHANGED <<cfg, now, due, cut>>

DeliverAnchor(to) ==
  /\ Arrived(to, "anchor")
  /\ Handle(to, "anchor", Head(net[to]),
            Done(anchorCallback(rs[to], Head(net[to])), <<>>),
            Dequeue(net, to))
  /\ UNCHANGED <<cfg, now, due, cut>>

DeliverPublicMeasurements(to) ==
  /\ Arrived(to, "public_measurements")
  /\ Handle(to, "public_measurements", Head(net[to]),
            Done(publicMeasurementsCallback(rs[to], Head(net[to])), <<>>),
            Dequeue(net, to))
  /\ UNCHANGED <<cfg, now, due, cut>>

DeliverMeasurementWeights(to) ==
  /\ Arrived(to, "measurement_weights")
  /\ Handle(to, "measurement_weights", Head(net[to]),
            Done(measurementWeightsCallback(rs[to], Head(net[to])), <<>>),
            Dequeue(net, to))
  /\ UNCHANGED <<cfg, now, due, cut>>

\* The 3 s timer of robot r fires, once in every period of the clock.  The
\* timers are slow against the handling of a message: a timer fires when
\* what the last one set off has been handled.
TimerCallback(r) ==
  /\ Running(r)
  /\ AllQuiet
  /\ r \in due
  /\ Handle(r, "timer", NoMsg, timerCallback(rs[r], cfg, now), net)
  /\ due' = due \ {r}
  /\ UNCHANGED <<cfg, now, cut>>

RunOnceChoices(s) ==
  {ch \in Choices :
     /\ ch.gotGraph = TRUE /\ ch.aligned = TRUE
     /\ IF stepAllowed(s, cfg)
        THEN /\ (ch.terminate \/ ch.updateWeight) => isLeader(s)
             /\ ch.terminate => ~ch.updateWeight
             /\ LET after == iterate(s, cfg, TRUE, TRUE)[1]
                IN IF ~(isLeader(s) /\ (shouldTerminate(after, cfg, ch)
                                         \/ ch.updateWeight))
                      /\ UpdateSelection(after, cfg) # {}
                   THEN ch.pick \in UpdateSelection(after, cfg)
                   ELSE ch.pick = 0
        ELSE ch = DefaultChoice}

\* One pass of the node's loop: ros::spinOnce() has run the callbacks of the
\* messages that arrived, then runOnce().  A pass that finds nothing to do
\* leaves the state as it is.
RunOnce(r) ==
  /\ Running(r)
  /\ Turn(r)
  /\ net[r] = <<>>
  /\ RunOnceActs(r)
  /\ \E ch \in RunOnceChoices(rs[r]) :
       Handle(r, "runOnce", NoMsg, runOnce(rs[r], cfg, ch, now), net)
  /\ UNCHANGED <<cfg, now, due, cut>>

\* The connectivity monitor of robot r reports the peers it reaches, before
\* the timer of robot r fires in this period.
ConnectivityCallback(r, connected_ids) ==
  /\ Running(r)
  /\ AllQuiet
  /\ r \in due
  /\ rs' = [rs EXCEPT ![r] = connectivityCallback(rs[r], connected_ids)]
  /\ rs'[r] # rs[r]
  /\ hist' = [hist EXCEPT ![r].scanned = FALSE]
  /\ ev' = Quiet("connectivity", r)
  /\ UNCHANGED <<net, cfg, now, due, cut>>

\* From now on the messages sent to robot r are lost, while its connectivity
\* monitor goes on reporting its peers.
Cut(r) ==
  /\ cut = {}
  /\ cut' = {r}
  /\ ev' = Quiet("cut", r)
  /\ UNCHANGED <<rs, net, cfg, now, due, hist>>

\* TimeUnit seconds pass.  An elapsed time that is beyond every threshold it
\* is compared with stays as it is.
Saturate(x, cap) == IF x > cap THEN x ELSE x + TimeUnit

Elapse ==
  /\ AllQuiet
  /\ \A r \in due : ~Running(r)
  /\ rs' = [r \in Robots |->
              [rs[r] EXCEPT
                 !.mLastCommandTime = Saturate(@, cfg.timeoutThreshold),
                 !.mLastUpdateTime =
                    IF @ = NoTime THEN @
                    ELSE Saturate(@, 3 * cfg.timeoutThreshold),
                 !.mLastResetTime = Saturate(@, IdleSec)]]
  /\ hist' = [r \in Robots |->
                [hist[r] EXCEPT
                   !.stall = IF @ = NoTime THEN @
                             ELSE Saturate(@, 3 * cfg.timeoutThreshold)]]
  /\ now' = IF now < MaxTime THEN now + 1 ELSE now
  /\ due' = Robots
  /\ ev' = Quiet("elapse", 0)
  /\ UNCHANGED <<net, cfg, cut>>

(***************************************************************************)
(* The team: three robots on a chain of loop closures 0 - 1 - 2, in the    *)
(* synchronous mode with the round-robin rule.                             *)
(***************************************************************************)
ChainGraph == {<<0, 1>>, <<1, 2>>}

Params ==
  [asynchronous |-> FALSE, acceleration |-> FALSE, maxDelayedIterations |-> 0,
   enableRecovery |-> TRUE, updateRule |-> "RoundRobin",
   maxDistributedInitSteps |-> 3, timeoutThreshold |-> 15, maxNumIters |-> 1,
   synchronizeMeasurements |-> FALSE, completeReset |-> FALSE,
   robustGNC |-> FALSE, graph |-> ChainGraph, service |-> TRUE,
   launched |-> Robots,
   topics |-> {"command", "status", "public_poses"}]

InitWith(params) ==
  /\ rs = [r \in Robots |-> NewRobot(r, FALSE)]
  /\ net = [r \in Robots |-> <<>>]
  /\ cfg = params
  /\ now = 0
  /\ due = Robots
  /\ cut = {}
  /\ hist = [r \in Robots |->
                [scanned |-> FALSE, gaveUp |-> FALSE, named |-> <<>>,
                 stall |-> NoTime]]
  /\ ev = Quiet("init", 0)

Init == InitWith(Params)

Next ==
  \/ \E to \in Robots : DeliverCommand(to)
  \/ \E to \in Robots : DeliverStatus(to)
  \/ \E to \in Robots : DeliverPublicPoses(to)
  \/ \E r \in Robots : TimerCallback(r)
  \/ \E r \in Robots : RunOnce(r)
  \/ Elapse

Spec == Init /\ [][Next]_vars

(***************************************************************************)
(* Robots 0 and 1 alone (the node of robot 2 is not launched), with the    *)
(* anchor, measurement and weight topics and the exchange of the shared    *)
(* measurements.                                                           *)
(***************************************************************************)
PairParams ==
  [Params EXCEPT !.launched = {0, 1}, !.topics = Topics,
                 !.synchronizeMeasurements = TRUE]

InitPair == InitWith(PairParams)

NextPair ==
  \/ Next
  \/ \E to \in Robots : DeliverAnchor(to)
  \/ \E to \in Robots : DeliverPublicMeasurements(to)
  \/ \E to \in Robots : DeliverMeasurementWeights(to)

SpecPair == InitPair /\ [][NextPair]_vars

(***************************************************************************)
(* The pair, and a message from outside the team (a robot of another       *)
(* cluster, a stale or a forged message) handled by a robot that has       *)
(* nothing else to do.                                                     *)
(***************************************************************************)
EnvCommands ==
  [topic : {"command"},
   command : {"NOOP", "TERMINATE", "HARD_TERMINATE", "INITIALIZE",
              "UPDATE_WEIGHT"},
   publishing_robot : Robots, cluster_id : Robots, executing_robot : {0},
   executing_iteration : {0}, active_robots : {{}}]
  \cup
  [topic : {"command"}, command : {"UPDATE", "RECOVER"},
   publishing_robot : Robots, cluster_id : Robots, executing_robot : {0, 1},
   executing_iteration : {1, 2}, active_robots : {{}}]
  \cup
  [topic : {"command"}, command : {"REQUEST_POSE_GRAPH", "SET_ACTIVE_ROBOTS"},
   publishing_robot : Robots, cluster_id : Robots, executing_robot : {0},
   executing_iteration : {0}, active_robots : {{0}, {0, 1}, Robots}]

EnvStatus ==
  [topic : {"status"}, robot_id : Robots, cluster_id : Robots,
   state : AgentStates, iteration_number : {0, 1}, stamp : {0, MaxTime}]

EnvPublicPoses ==
  [topic : {"public_poses"}, robot_id : Robots, cluster_id : Robots,
   destination_robot_id : {0, 1}, iteration_number : {1, 2},
   is_auxiliary : BOOLEAN]

EnvAnchors ==
  [topic : {"anchor"}, robot_id : {0, 1}, cluster_id : Robots,
   iteration_number : {0}]

EnvPublicMeasurements ==
  [topic : {"public_measurements"}, from_robot : Robots,
   from_cluster : Robots, to_robot : {0, 1},
   edges : {{<<0, 1>>}, ChainGraph}]

EnvMeasurementWeights ==
  [topic : {"measurement_weights"}, robot_id : Robots, cluster_id : Robots,
   destination_robot_id : {0, 1},
   entries : {{[edge |-> <<0, 1>>, weight |-> 0]},
              {[edge |-> <<0, 2>>, weight |-> 0]},
              {[edge |-> <<0, 1>>, weight |-> 0],
               [edge |-> <<0, 2>>, weight |-> 0]},
              {[edge |-> <<0, 1>>, weight |-> 1],
               [edge |-> <<1, 2>>, weight |-> 0]}}]

\* Robot `to' handles a message from outside; what it publishes in answer is
\* recorded in ev.out, and the behaviour is followed no further.
Receive(to, kind, msg, result) ==
  \E res \in {result} :
    /\ res.s.mIterationNumber <= MaxIter
    /\ rs' = [rs EXCEPT ![to] = res.s]
    /\ hist' = TeamHist(hist, to, kind, msg, rs[to], res)
    /\ ev' = Event(kind, to, msg, res, "env")
    /\ UNCHANGED <<net, cfg, now, due, cut>>

ReceiveCommand(to, msg) ==
  \E ch \in CommandChoices(rs[to], msg) :
    Receive(to, "command", msg, commandCallback(rs[to], cfg, msg, ch, now))

ReceiveStatus(to, msg) ==
  Receive(to, "status", msg, statusCallback(rs[to], cfg, msg))

ReceivePublicPoses(to, msg) ==
  \E aligned \in AlignChoices(rs[to]) :
    Receive(to, "public_poses", msg,
            Done(publicPosesCallback(rs[to], msg, aligned), <<>>))

ReceiveAnchor(to, msg) ==
  Receive(to, "anchor", msg, Done(anchorCallback(rs[to], msg), <<>>))

ReceivePublicMeasurements(to, msg) ==
  Receive(to, "public_measurements", msg,
          Done(publicMeasurementsCallback(rs[to], msg), <<>>))

ReceiveMeasurementWeights(to, msg) ==
  Receive(to, "measurement_weights", msg,
          Done(measurementWeightsCallback(rs[to], msg), <<>>))

\* The robots a message from outside may reach now.
Listening == IF ev.origin = "net" /\ AllQuiet
             THEN {to \in Robots : Running(to)} ELSE {}

NextOpen ==
  \/ ev.origin = "net" /\ NextPair
  \/ \E to \in Listening, msg \in EnvCommands : ReceiveCommand(to, msg)
  \/ \E to \in Listening, msg \in EnvStatus : ReceiveStatus(to, msg)
  \/ \E to \in Listening, msg \in EnvPublicPoses :
       ReceivePublicPoses(to, msg)
  \/ \E to \in Listening, msg \in EnvAnchors : ReceiveAnchor(to, msg)
  \/ \E to \in Listening, msg \in EnvPublicMeasurements :
       ReceivePublicMeasurements(to, msg)
  \/ \E to \in Listening, msg \in EnvMeasurementWeights :
       ReceiveMeasurementWeights(to, msg)

SpecOpen == InitPair /\ [][NextOpen]_vars

(***************************************************************************)
(* Robots 1 and 2 alone, their pose graph service not answering: no round  *)
(* starts, and the connectivity of each changes at will.                   *)
(***************************************************************************)
ClusterParams == [Params EXCEPT !.launched = {1, 2}, !.service = FALSE]

InitCluster == InitWith(ClusterParams)

NextCluster ==
  \/ \E to \in Robots : DeliverCommand(to)
  \/ \E to \in Robots : DeliverStatus(to)
  \/ \E r \in Robots : TimerCallback(r)
  \/ \E r \in Robots : RunOnce(r)
  \/ Elapse
  \/ \E r \in Robots, ids \in SUBSET Robots : ConnectivityCallback(r, ids)

SpecCluster == InitCluster /\ [][NextCluster]_vars

(***************************************************************************)
(* Robots 0 and 1 alone with failures: the messages to one robot are lost  *)
(* from some moment on, and a robot in the middle of a round loses peers.  *)
(***************************************************************************)
FaultParams == [Params EXCEPT !.launched = {0, 1}]

InitFault == InitWith(FaultParams)

MidRound(s) == s.mState = INITIALIZED /\ s.mIterationNumber > 0

Disconnect(r, ids) ==
  /\ MidRound(rs[r])
  /\ \A q \in ids : rs[r].mTeamConnected[q]
  /\ ConnectivityCallback(r, ids)

NextLoss ==
  \/ Next
  \/ \E r \in Robots : Cut(r)

NextFault ==
  \/ NextLoss
  \/ \E r \in Robots, ids \in SUBSET Robots : Disconnect(r, ids)

SpecFault == InitFault /\ [][NextFault]_vars

\* A step of a robot that has something to do is taken before time passes,
\* so it is enough that the team goes on: then every robot handles the
\* messages that arrived and passes through its loop, the timers fire and
\* time passes.
SpecLive == InitFault /\ [][NextLoss]_vars /\ WF_vars(Next)

(***************************************************************************)
(* Robots 0 and 1 alone, with the control loops and timers going on, under *)
(* a timeoutThreshold below the idle interval of the timer or the one of   *)
(* the team above.                                                         *)
(***************************************************************************)
Thresholds == {5, Params.timeoutThreshold}

InitIdle ==
  \E threshold \in Thresholds :
    InitWith([FaultParams EXCEPT !.timeoutThreshold = threshold])

SpecIdle == InitIdle /\ [][Next]_vars /\ WF_vars(Next)

(***************************************************************************)
(* Robots 0 and 1 alone, reached by a Status from outside whose robot_id   *)
(* is numRobots or more.  A write beyond the end of an array is undefined: *)
(* the node goes on with its records as they were, or it is lost.          *)
(***************************************************************************)
WideStatus ==
  [topic : {"status"}, robot_id : {numRobots, numRobots + 1},
   cluster_id : Robots, state : {WAIT_FOR_DATA, INITIALIZED},
   iteration_number : {0}, stamp : {MaxTime}]

\* The positions of mTeamClusterID that setRobotClusterID(robot_id,
\* cluster_id) writes.
setRobotClusterIDIndex(robot_id, cluster_id) ==
  IF robot_id > numRobots THEN {}
  ELSE IF cluster_id > numRobots THEN {}
  ELSE {robot_id}

ReceiveWideStatus(to, msg) ==
  \E lost \in BOOLEAN :
    /\ lost => ~(setRobotClusterIDIndex(msg.robot_id, msg.cluster_id)
                   \subseteq Robots)
    /\ Receive(to, "status", msg, Done([rs[to] EXCEPT !.hung = lost], <<>>))

NextWide ==
  \/ ev.origin = "net" /\ NextPair
  \/ \E to \in Listening, msg \in WideStatus : ReceiveWideStatus(to, msg)

SpecWide == InitPair /\ [][NextWide]_vars

(***************************************************************************)
(* Robots 0 and 1 alone on a network that loses messages one at a time: a  *)
(* command or a list of public poses on its way to a robot whose step is   *)
(* requested does not arrive.                                              *)
(***************************************************************************)
Sender(msg) ==
  IF msg.topic = "command" THEN msg.publishing_robot ELSE msg.robot_id

Drop(to) ==
  /\ Arrived(to, Head(net[to]).topic)
  /\ Head(net[to]).topic \in {"command", "public_poses"}
  /\ Sender(Head(net[to])) # to
  /\ rs[to].mSynchronousOptimizationRequested
  /\ net' = Dequeue(net, to)
  /\ ev' = Quiet("drop", to)
  /\ UNCHANGED <<rs, cfg, now, due, cut, hist>>

NextLossy ==
  \/ Next
  \/ \E to \in Robots : Drop(to)

SpecLossy == InitFault /\ [][NextLossy]_vars

(***************************************************************************)
(* Robots 0 and 1 alone, one of which loses peers while the team is being  *)
(* initialized: after it has left WAIT_FOR_DATA and before the first       *)
(* iteration.                                                              *)
(***************************************************************************)
Initializing(s) == s.mState # WAIT_FOR_DATA /\ s.mIterationNumber = 0

DisconnectEarly(r, ids) ==
  /\ Initializing(rs[r])
  /\ \A q \in ids : rs[r].mTeamConnected[q]
  /\ ConnectivityCallback(r, ids)

NextEarly ==
  \/ Next
  \/ \E r \in Robots, ids \in SUBSET Robots : DisconnectEarly(r, ids)

SpecEarly == InitFault /\ [][NextEarly]_vars

(***************************************************************************)
(* Robots 0 and 1 alone with the uniform rule: the robot that has stepped  *)
(* draws the next one among the active, initialized robots, itself         *)
(* included.                                                               *)
(***************************************************************************)
UniformParams == [Params EXCEPT !.launched = {0, 1}, !.updateRule = "Uniform"]

InitUniform == InitWith(UniformParams)

SpecUniform == InitUniform /\ [][Next]_vars

(***************************************************************************)
(* Properties.  ev' is the handler that runs in a step, rs the robots      *)
(* before it and rs' the robots after it.                                  *)
(***************************************************************************)
\* The robot of the handler at the instant of its solver step: the UPDATE
\* handler has recorded the iteration of the executing robot by then.
AtStep(pre, e) ==
  IF e.step = "passive"
  THEN [pre EXCEPT !.mTeamIterRequired[e.msg.executing_robot] =
                      e.msg.executing_iteration]
  ELSE pre

\* C1, as stated: at the instant of every solver step a robot performs, be
\* it iterate(true) in the control loop or iterate(false) in the UPDATE
\* handler, every active neighbour nb has
\* mTeamIterReceived[nb] >= required(nb).
BarrierAtEveryStep ==
  [][ev'.step # "none" => ready(AtStep(rs[ev'.robot], ev'), cfg)]_vars

\* C1, amended: at the instant of every optimizing step iterate(true) a
\* robot performs, the step was requested and every active neighbour nb has
\* mTeamIterReceived[nb] >= required(nb); the step iterate(false) of the
\* UPDATE handler is taken without the test.
BarrierAtOptimizingStep ==
  [][ev'.step = "optimize" =>
       /\ ev'.kind = "runOnce"
       /\ rs[ev'.robot].mSynchronousOptimizationRequested
       /\ \A nb \in activeNeighborIDs(rs[ev'.robot]) :
            rs[ev'.robot].mTeamIterReceived[nb]
              >= requiredIter(rs[ev'.robot], cfg, nb)]_vars

\* Robot 1, in the middle of the chain, has taken an optimizing step for
\* which it needed the poses of iteration 1 or later of both neighbours.
OptimizedBehindBarrier ==
  /\ ev.kind = "runOnce" /\ ev.step = "optimize" /\ ev.robot = 1
  /\ activeNeighborIDs(rs[1]) = {0, 2}
  /\ \A nb \in {0, 2} : /\ rs[1].mTeamIterRequired[nb] >= 1
                         /\ rs[1].mTeamIterReceived[nb]
                              >= rs[1].mTeamIterRequired[nb]

\* The cluster tag of the message of a handler differs from the cluster of
\* the robot that handles it.
Mismatched(pre, msg) ==
  IF msg.topic = "public_measurements"
  THEN msg.from_cluster # pre.mClusterID
  ELSE msg.cluster_id # pre.mClusterID

\* C2: a command whose cluster_id differs from the receiver's cluster
\* changes no member of the receiver (state, iteration, active set,
\* required / received iterations, request flags, timers) and makes it
\* publish nothing, whatever the command and the receiver's state.
MismatchedCommandIgnored ==
  [][(ev'.kind = "command" /\ Mismatched(rs[ev'.robot], ev'.msg)) =>
       /\ rs'[ev'.robot] = rs[ev'.robot]
       /\ ev'.out = <<>>]_vars

\* An initialized robot in a round has ignored a HARD_TERMINATE of another
\* cluster.
HardTerminateOfOtherCluster ==
  /\ ev.kind = "command" /\ ev.msg.command = "HARD_TERMINATE"
  /\ Mismatched(rs[ev.robot], ev.msg)
  /\ rs[ev.robot].mState = INITIALIZED
  /\ rs[ev.robot].mIterationNumber > 0

\* C3, as stated: a status whose cluster_id differs from the receiver's
\* cluster changes neither the retained status messages, nor the recorded
\* cluster of the sender, nor the neighbour status, nor the active set, and
\* makes the receiver publish nothing.
MismatchedStatusDropped ==
  [][(ev'.kind = "status" /\ Mismatched(rs[ev'.robot], ev'.msg)) =>
       /\ rs'[ev'.robot].mTeamStatusMsg = rs[ev'.robot].mTeamStatusMsg
       /\ rs'[ev'.robot].mTeamClusterID = rs[ev'.robot].mTeamClusterID
       /\ rs'[ev'.robot].mTeamStatus = rs[ev'.robot].mTeamStatus
       /\ rs'[ev'.robot].mTeamRobotActive = rs[ev'.robot].mTeamRobotActive
       /\ ev'.out = <<>>]_vars

\* C3, amended: a status whose cluster_id differs from the receiver's
\* cluster never changes the neighbour status.  Unless it is older than
\* the one retained, the receiver retains it and records the sender's
\* cluster; a leader in the synchronous mode that holds the sender active
\* deactivates it and publishes SET_ACTIVE_ROBOTS; nothing else changes
\* and nothing else is published.
MismatchedStatusNotInstalled ==
  [][(ev'.kind = "status" /\ Mismatched(rs[ev'.robot], ev'.msg)) =>
       LET pre == rs[ev'.robot]
           post == rs'[ev'.robot]
           msg == ev'.msg
           kept == [pre EXCEPT
                      !.mTeamStatusMsg[msg.robot_id] = msg,
                      !.mTeamClusterID[msg.robot_id] = msg.cluster_id]
           deactivates == /\ ~cfg.asynchronous /\ pre.id = pre.mClusterID
                          /\ pre.mTeamRobotActive[msg.robot_id]
       IN /\ post.mTeamStatus = pre.mTeamStatus
          /\ IF statusIsOutdated(pre, msg)
             THEN post = pre /\ ev'.out = <<>>
             ELSE IF deactivates
                  THEN /\ post = [kept EXCEPT
                                    !.mTeamRobotActive[msg.robot_id] = FALSE]
                       /\ Len(ev'.out) = 1
                       /\ ev'.out[1].command = "SET_ACTIVE_ROBOTS"
                       /\ ev'.out[1].active_robots
                            = {r \in Robots : post.mTeamRobotActive[r]}
                  ELSE post = kept /\ ev'.out = <<>>]_vars

\* The leader has handled a status of its active follower that carries
\* another cluster: it has retained it, deactivated the follower and
\* published the active set, and the neighbour status is not INITIALIZED.
FollowerOfOtherClusterDeactivated ==
  /\ ev.kind = "status" /\ ev.robot = 0 /\ ev.msg.robot_id = 1
  /\ Mismatched(rs[0], ev.msg)
  /\ ev.msg.state = INITIALIZED
  /\ rs[0].mTeamStatusMsg[1] = ev.msg
  /\ rs[0].mTeamStatus[1] # INITIALIZED
  /\ ~rs[0].mTeamRobotActive[1]
  /\ ev.out # <<>>

\* C4: a public poses, anchor, public measurements or measurement weights
\* message whose cluster tag differs from the receiver's cluster changes
\* no member of the receiver: not the received iterations, the neighbour
\* poses, the received-shared-loop-closures flags, the measurements or the
\* weights.
MismatchedDataDropped ==
  [][(/\ ev'.kind \in {"public_poses", "anchor", "public_measurements",
                        "measurement_weights"}
      /\ Mismatched(rs[ev'.robot], ev'.msg)) =>
       rs'[ev'.robot] = rs[ev'.robot]]_vars

\* A robot has dropped the public poses of a neighbour that carry another
\* cluster and an iteration it has not received.
PosesOfOtherClusterDropped ==
  /\ ev.kind = "public_poses"
  /\ Mismatched(rs[ev.robot], ev.msg)
  /\ ev.msg.robot_id \in getNeighbors(rs[ev.robot])
  /\ rs[ev.robot].mState = INITIALIZED
  /\ rs[ev.robot].mTeamIterReceived[ev.msg.robot_id]
       < ev.msg.iteration_number

\* The robots that robot s holds as connected, itself included.
ConnectedView(s) == {q \in Robots : isRobotConnected(s, q)}

\* C5: when the connectivity of a robot has not changed since its last
\* scan, its view holds exactly one leader: its mClusterID is one robot in
\* 0 .. numRobots - 1 that it holds as connected, isLeader() is true exactly
\* when its own ID is its mClusterID, and two such robots with the same
\* connectivity view have the same mClusterID.
OneLeaderPerView ==
  \A r \in cfg.launched :
    hist[r].scanned =>
      /\ rs[r].mClusterID \in Robots
      /\ Cardinality({q \in ConnectedView(rs[r]) : q = rs[r].mClusterID}) = 1
      /\ isLeader(rs[r]) <=> (r = rs[r].mClusterID)
      /\ \A q \in cfg.launched :
           (hist[q].scanned /\ ConnectedView(rs[q]) = ConnectedView(rs[r]))
             => rs[q].mClusterID = rs[r].mClusterID

\* Robots 1 and 2 have scanned since their connectivity last changed, both
\* reach each other and not robot 0, and both hold robot 1 as the leader.
BothFollowRobotOne ==
  /\ hist[1].scanned /\ hist[2].scanned
  /\ ConnectedView(rs[1]) = {1, 2} /\ ConnectedView(rs[2]) = {1, 2}
  /\ rs[1].mClusterID = 1 /\ rs[2].mClusterID = 1
  /\ isLeader(rs[1]) /\ ~isLeader(rs[2])

\* C6: the scan of updateCluster sets mClusterID to the lowest robot in
\* 0 .. numRobots - 1 that the robot holds as connected, its own ID counting
\* as connected: so mClusterID <= own ID after it, with equality exactly
\* when no lower ID is connected.
ScanAdoptsLowestConnected ==
  [][(ev'.kind = "timer" /\ timerScans(rs[ev'.robot])) =>
       LET pre == rs[ev'.robot]
           post == rs'[ev'.robot]
       IN /\ post.mClusterID \in ConnectedView(pre)
          /\ \A lower \in 0 .. (post.mClusterID - 1) :
               lower \notin ConnectedView(pre)
          /\ pre.id \in ConnectedView(pre)
          /\ post.mClusterID <= pre.id
          /\ (post.mClusterID = pre.id)
               <=> (\A lower \in 0 .. (pre.id - 1) :
                      ~pre.mTeamConnected[lower])]_vars

\* The timer of robot 2 has scanned while robot 2 reaches robot 1 and not
\* robot 0: it has left the cluster of robot 0 for that of robot 1.
ScanLeftForRobotOne ==
  /\ ev.kind = "timer" /\ ev.robot = 2 /\ hist[2].scanned
  /\ ConnectedView(rs[2]) = {1, 2}
  /\ rs[2].mClusterID = 1
  /\ rs[2].mTeamClusterID[0] = 0

\* C7: under message loss and with the control loops and timers going on,
\* a robot that is in WAIT_FOR_INITIALIZATION or INITIALIZED eventually
\* returns to WAIT_FOR_DATA.
EventuallyWaitForData ==
  \A r \in FaultParams.launched :
    (rs[r].mState # WAIT_FOR_DATA) ~> (rs[r].mState = WAIT_FOR_DATA)

\* C8: when a robot is INITIALIZED with mIterationNumber > 0 and no
\* iterate(true) of its own has succeeded for more than 3 timeoutThreshold,
\* the next pass of its loop (one that takes no step) resets it to
\* WAIT_FOR_DATA, and the leader publishes HARD_TERMINATE in it.
HardStallResets ==
  \A r \in Robots :
    (/\ Running(r) /\ MidRound(rs[r])
     /\ hist[r].stall > 3 * cfg.timeoutThreshold
     /\ ~stepAllowed(rs[r], cfg)) =>
       LET pass == runOnce(rs[r], cfg, DefaultChoice, now)
       IN /\ pass.s.mState = WAIT_FOR_DATA
          /\ isLeader(rs[r]) => Emits(pass.out, "HARD_TERMINATE")

\* The number of RECOVER commands among the messages `out'.
RecoverCount(out) ==
  Cardinality({i \in DOMAIN out :
                 out[i].topic = "command" /\ out[i].command = "RECOVER"})

\* The pass of the loop in ev' takes no step and finds the command channel
\* of the leader, INITIALIZED with mIterationNumber > 0, quiet for more
\* than timeoutThreshold, with two active robots and recovery enabled.
SilenceWithTwoActive(pre, e) ==
  /\ e.kind = "runOnce" /\ e.step = "none"
  /\ isLeader(pre) /\ MidRound(pre)
  /\ pre.mLastCommandTime > cfg.timeoutThreshold
  /\ numActiveRobots(pre) = 2
  /\ cfg.enableRecovery

\* C9, as stated: on the expiry of the command timeout in the leader,
\* INITIALIZED with mIterationNumber > 0, with 2 active robots and recovery
\* enabled, the leader publishes exactly one RECOVER and no HARD_TERMINATE.
SilenceRecoversOnce ==
  [][SilenceWithTwoActive(rs[ev'.robot], ev') =>
       /\ RecoverCount(ev'.out) = 1
       /\ ~Emits(ev'.out, "HARD_TERMINATE")]_vars

\* C9, amended: on that expiry the leader publishes exactly one RECOVER
\* and no HARD_TERMINATE, and re-arms the command timeout, when it holds
\* both active robots connected and its hard timeout has not expired too.
\* When the other active robot is disconnected, the leader deactivates it
\* and publishes SET_ACTIVE_ROBOTS and HARD_TERMINATE, and no RECOVER; when
\* the hard timeout has expired too, HARD_TERMINATE follows the RECOVER
\* and the leader is reset.
SilenceWithTwoConnectedRecoversOnce ==
  [][SilenceWithTwoActive(rs[ev'.robot], ev') =>
       LET pre == rs[ev'.robot]
           post == rs'[ev'.robot]
       IN IF disconnectedRobots(pre) # {}
          THEN /\ RecoverCount(ev'.out) = 0
               /\ Emits(ev'.out, "SET_ACTIVE_ROBOTS")
               /\ Emits(ev'.out, "HARD_TERMINATE")
               /\ ActiveRobotList(post) = {pre.id}
          ELSE IF pre.mLastUpdateTime # NoTime
                    /\ pre.mLastUpdateTime > 3 * cfg.timeoutThreshold
               THEN /\ RecoverCount(ev'.out) = 1
                    /\ Emits(ev'.out, "HARD_TERMINATE")
                    /\ post.mState = WAIT_FOR_DATA
               ELSE /\ RecoverCount(ev'.out) = 1
                    /\ ~Emits(ev'.out, "HARD_TERMINATE")
                    /\ post.mLastCommandTime = 0
                    /\ post.mState = INITIALIZED
                    /\ ActiveRobotList(post) = ActiveRobotList(pre)]_vars

\* The leader, in a round with its connected follower, has found the
\* command channel quiet and has published one RECOVER that carries its
\* iteration.
LeaderRecovered ==
  /\ ev.kind = "runOnce" /\ ev.robot = 0 /\ ev.step = "none"
  /\ isLeader(rs[0]) /\ MidRound(rs[0])
  /\ ActiveRobotList(rs[0]) = {0, 1}
  /\ disconnectedRobots(rs[0]) = {}
  /\ RecoverCount(ev.out) = 1
  /\ ~Emits(ev.out, "HARD_TERMINATE")
  /\ \E i \in DOMAIN ev.out :
       /\ ev.out[i].command = "RECOVER"
       /\ ev.out[i].executing_iteration = rs[0].mIterationNumber
  /\ rs[0].mLastCommandTime = 0

\* The active robots whose last status, as the robot s holds it, is
\* INITIALIZED.
ReportedInitialized(s) ==
  {q \in Robots : s.mTeamRobotActive[q] /\ s.mTeamStatus[q] = INITIALIZED}

\* The messages `out' hold the UPDATE that starts a round.
KicksOff(out) ==
  \E i \in DOMAIN out :
    /\ out[i].topic = "command" /\ out[i].command = "UPDATE"
    /\ out[i].executing_iteration = 1

\* The leader handles the INITIALIZE of its cluster in ev'.
LeaderPolls(pre, e) ==
  /\ e.kind = "command" /\ e.msg.command = "INITIALIZE"
  /\ e.msg.cluster_id = pre.mClusterID
  /\ e.msg.publishing_robot = pre.mClusterID
  /\ pre.id = pre.mClusterID

\* C10: with 3 active robots, when the leader handles an INITIALIZE with
\* its retries used up and only 1 robot reported INITIALIZED, it publishes
\* HARD_TERMINATE and no UPDATE, and it publishes no UPDATE until it is
\* reset; a round is started (UPDATE for iteration 1) only by the leader,
\* in its INITIALIZE handler, when at least 2 active robots have reported
\* INITIALIZED.
RoundStartsWithTwoInitialized ==
  [][LET pre == rs[ev'.robot]
     IN /\ (/\ LeaderPolls(pre, ev')
            /\ numActiveRobots(pre) = 3
            /\ pre.mInitStepsDone > cfg.maxDistributedInitSteps
            /\ Cardinality(ReportedInitialized(pre)) = 1) =>
              /\ Emits(ev'.out, "HARD_TERMINATE")
              /\ ~Emits(ev'.out, "UPDATE")
        /\ hist[ev'.robot].gaveUp => ~Emits(ev'.out, "UPDATE")
        /\ (LeaderPolls(pre, ev') /\ Emits(ev'.out, "UPDATE")) =>
              Cardinality(ReportedInitialized(pre)) >= 2
        /\ KicksOff(ev'.out) =>
              /\ LeaderPolls(pre, ev')
              /\ Cardinality(ReportedInitialized(pre)) >= 2]_vars

\* The leader of three active robots, its retries used up and the two
\* followers not initialized, has published HARD_TERMINATE and no UPDATE.
LeaderGaveUp ==
  /\ ev.kind = "command" /\ ev.msg.command = "INITIALIZE" /\ ev.robot = 0
  /\ isLeader(rs[0])
  /\ ActiveRobotList(rs[0]) = Robots
  /\ rs[0].mInitStepsDone > cfg.maxDistributedInitSteps
  /\ ReportedInitialized(rs[0]) = {0}
  /\ rs[0].mTeamStatus[1] = WAIT_FOR_INITIALIZATION
  /\ rs[0].mTeamStatus[2] = WAIT_FOR_INITIALIZATION
  /\ Emits(ev.out, "HARD_TERMINATE") /\ ~Emits(ev.out, "UPDATE")
  /\ hist[0].gaveUp

\* The handler in e is commandCallback on an UPDATE of the robot's own
\* cluster.
HandlesUpdate(pre, e) ==
  /\ e.kind = "command" /\ e.msg.command = "UPDATE"
  /\ ~Mismatched(pre, e.msg)

RecoverResynchronizes ==
  [][(/\ ev'.kind = "command" /\ ev'.msg.command = "RECOVER"
      /\ ~Mismatched(rs[ev'.robot], ev'.msg)
      /\ isRobotActive(rs[ev'.robot], ev'.robot)
      /\ rs[ev'.robot].mState = INITIALIZED) =>
       LET post == rs'[ev'.robot]
       IN /\ post.mIterationNumber = ev'.msg.executing_iteration
          /\ \A r \in getNeighbors(rs[ev'.robot]) :
               /\ post.mTeamIterReceived[r] = 0
               /\ post.mTeamIterRequired[r] = post.mIterationNumber
          /\ ~post.mSynchronousOptimizationRequested
          /\ ev'.step = "none"]_vars

\* Robot 1, a follower in a round that has passed its first iteration, has
\* handled the leader's RECOVER and waits for the leader's poses again.
FollowerResynchronized ==
  /\ ev.kind = "command" /\ ev.msg.command = "RECOVER" /\ ev.robot = 1
  /\ ev.origin = "net"
  /\ rs[1].mState = INITIALIZED /\ isRobotActive(rs[1], 1)
  /\ 0 \in getNeighbors(rs[1])
  /\ ev.msg.executing_iteration >= 2
  /\ rs[1].mIterationNumber = ev.msg.executing_iteration
  /\ rs[1].mTeamIterReceived[0] = 0
  /\ rs[1].mTeamIterRequired[0] = rs[1].mIterationNumber
  /\ ~ready(rs[1], cfg)

\* The robots that publishUpdateCommand() goes round, as the leader s holds
\* them.
InTurn(s) == UpdateCandidates(s)

\* The executing robots of the sequence w, the marks of RECOVER left out.
Turns(w) == SelectSeq(w, LAMBDA x : x # Restart)

\* The executing robots named in w since the last RECOVER.
SinceRestart(w) ==
  LET marks == {i \in 1 .. Len(w) : w[i] = Restart}
      from == IF marks = {} THEN 1
              ELSE 1 + CHOOSE i \in marks : \A j \in marks : j <= i
  IN SubSeq(w, from, Len(w))

\* In the sequence w, between the last naming and the one before of the
\* robot named last, every robot of S is named, exactly once.
VisitsAllBeforeRepeat(w, S) ==
  LET n == Len(w)
  IN \A i \in 1 .. (n - 1) :
       (w[i] = w[n] /\ \A j \in (i + 1) .. (n - 1) : w[j] # w[n]) =>
         /\ {w[j] : j \in i .. (n - 1)} = S
         /\ n - i = Cardinality(S)

\* The cluster of robot c, its leader, is in a round under the round-robin
\* rule.
RoundRobinRound(c) ==
  /\ cfg.updateRule = "RoundRobin"
  /\ isLeader(rs[c]) /\ rs[c].mState = INITIALIZED

ForeignEntries(msg, id) ==
  {en \in msg.entries : en.edge[1] # id /\ en.edge[2] # id}

\* C14: an entry of a weight message that names the receiver on neither
\* side is rejected.  The receiver's weight of that measurement stays as it
\* was, the message has the effect it has without the entry, and a message
\* of such entries only changes nothing of the receiver, its data matrices
\* included.
ForeignWeightRejected ==
  [][(/\ ev'.kind = "measurement_weights"
      /\ ForeignEntries(ev'.msg, ev'.robot) # {}) =>
       LET pre == rs[ev'.robot]
           post == rs'[ev'.robot]
           foreign == ForeignEntries(ev'.msg, ev'.robot)
           rest == [ev'.msg EXCEPT !.entries = @ \ foreign]
       IN /\ \A en \in foreign :
               (en.edge \in post.weights) = (en.edge \in pre.weights)
          /\ post = measurementWeightsCallback(pre, rest)
          /\ foreign = ev'.msg.entries => post = pre
          /\ ev'.out = <<>>]_vars

\* Robot 1, with its data matrices built, has handled a weight message of
\* its cluster, addressed to it, whose entry for the measurement between
\* robots 0 and 2 it has rejected and whose entry for the measurement
\* between robots 0 and 1 has cleared its data matrices.
ForeignEntryLeftOut ==
  /\ ev.kind = "measurement_weights" /\ ev.robot = 1
  /\ ev.msg.destination_robot_id = 1
  /\ ev.msg.cluster_id = rs[1].mClusterID
  /\ ev.msg.entries = {[edge |-> <<0, 1>>, weight |-> 0],
                       [edge |-> <<0, 2>>, weight |-> 0]}
  /\ rs[1].mState = INITIALIZED /\ rs[1].mIterationNumber > 0
  /\ rs[1].weights = {<<0, 1>>}
  /\ ~rs[1].dataMatrices

\* C15: a status whose stamp is older than that of the status the receiver
\* holds of the sender is discarded and changes nothing of the receiver;
\* any other status is the one the receiver holds of the sender afterwards.
\* So, as long as the receiver holds a status of a robot, the stamp of the
\* status it holds never decreases; it holds none again only by reset().
LatestStatusRetained ==
  [][/\ \A r, q \in Robots :
          LET held == rs[r].mTeamStatusMsg[q]
              kept == rs'[r].mTeamStatusMsg[q]
          IN /\ (held # NoMsg /\ kept # NoMsg) => kept.stamp >= held.stamp
             /\ (held # NoMsg /\ kept = NoMsg) =>
                   /\ rs'[r].mState = WAIT_FOR_DATA
                   /\ \A p \in Robots : rs'[r].mTeamStatusMsg[p] = NoMsg
     /\ ev'.kind = "status" =>
          LET pre == rs[ev'.robot]
              post == rs'[ev'.robot]
              held == pre.mTeamStatusMsg[ev'.msg.robot_id]
          IN IF held # NoMsg /\ ev'.msg.stamp < held.stamp
             THEN post = pre /\ ev'.out = <<>>
             ELSE post.mTeamStatusMsg[ev'.msg.robot_id] = ev'.msg]_vars

\* Robot 0, in a round, holds the status of robot 1 in which robot 1 is
\* INITIALIZED, and has discarded an older status of robot 1 in its cluster
\* that says WAIT_FOR_DATA.
OlderStatusDiscarded ==
  /\ ev.kind = "status" /\ ev.robot = 0 /\ ev.msg.robot_id = 1
  /\ ev.msg.cluster_id = rs[0].mClusterID
  /\ ev.msg.state = WAIT_FOR_DATA
  /\ rs[0].mTeamStatusMsg[1] # NoMsg
  /\ ev.msg.stamp < rs[0].mTeamStatusMsg[1].stamp
  /\ rs[0].mTeamStatusMsg[1].state = INITIALIZED
  /\ rs[0].mTeamStatus[1] = INITIALIZED
  /\ isLeader(rs[0]) /\ MidRound(rs[0]) /\ isRobotActive(rs[0], 1)

\* C16, as stated: the iteration number of a robot never decreases but by
\* reset(), which leaves it at 0.
IterationMonotonicInRound ==
  [][\A r \in Robots :
       /\ rs'[r].mState = WAIT_FOR_DATA => rs'[r].mIterationNumber = 0
       /\ rs'[r].mIterationNumber < rs[r].mIterationNumber =>
            rs'[r].mState = WAIT_FOR_DATA]_vars

\* C16, amended: the iteration number of a robot is 0 after reset().  In a
\* round it is raised by one by every solver step of the robot, and is
\* changed otherwise only by RECOVER, which sets it to the iteration of the
\* command, lower or higher than the one the robot had.
IterationMonotonicButRecover ==
  [][\A r \in Robots :
       LET pre == rs[r]
           post == rs'[r]
           recovers == /\ ev'.kind = "command" /\ ev'.robot = r
                       /\ ev'.msg.command = "RECOVER"
                       /\ pre.mState = INITIALIZED
       IN /\ post.mState = WAIT_FOR_DATA => post.mIterationNumber = 0
          /\ post.mIterationNumber # pre.mIterationNumber =>
               \/ post.mState = WAIT_FOR_DATA
               \/ /\ recovers
                  /\ post.mIterationNumber = ev'.msg.executing_iteration
               \/ /\ ev'.robot = r /\ ev'.step # "none"
                  /\ post.mIterationNumber = pre.mIterationNumber + 1]_vars

\* Robot 1, which had published its status at iteration 3, has handled the
\* leader's RECOVER and is at iteration 2.
RecoverLoweredIteration ==
  /\ ev.kind = "command" /\ ev.msg.command = "RECOVER" /\ ev.robot = 1
  /\ rs[1].mState = INITIALIZED
  /\ rs[1].mTeamStatusMsg[1] # NoMsg
  /\ rs[1].mTeamStatusMsg[1].iteration_number = 3
  /\ ev.msg.executing_iteration = 2
  /\ rs[1].mIterationNumber = 2

\* What reset() leaves of the protocol state.
IsReset(s) ==
  /\ s.mState = WAIT_FOR_DATA /\ s.mIterationNumber = 0
  /\ \A r \in Robots :
       /\ s.mTeamIterRequired[r] = 0 /\ s.mTeamIterReceived[r] = 0
       /\ s.mTeamStatusMsg[r] = NoMsg /\ s.mTeamStatus[r] = NoStatus
       /\ s.mTeamClusterID[r] = r
  /\ ~s.mSynchronousOptimizationRequested /\ ~s.mTryInitializeRequested
  /\ s.mLastUpdateTime = NoTime

\* C17: from every state of a robot, reset() leaves WAIT_FOR_DATA,
\* iteration 0, mTeamIterRequired and mTeamIterReceived all 0, the requests
\* of a step and of tryInitialize cleared, no status held and every robot
\* in the cluster of its own ID, and a second reset() changes nothing more;
\* the robot that handles HARD_TERMINATE is reset so, once more when it had
\* been reset already, with the time of the command recorded.
ResetIdempotent ==
  [][/\ \A r \in Robots : \A complete \in BOOLEAN :
          LET once == reset(rs[r], complete)
          IN /\ IsReset(once)
             /\ reset(once, complete) = once
             /\ reset(once, ~complete) = reset(rs[r], TRUE)
     /\ (/\ ev'.kind = "command" /\ ev'.msg.command = "HARD_TERMINATE"
         /\ ~Mismatched(rs[ev'.robot], ev'.msg)) =>
          LET pre == rs[ev'.robot]
              post == rs'[ev'.robot]
              again == reset(pre, cfg.completeReset)
          IN /\ post = [again EXCEPT !.mLastCommandTime = 0]
             /\ IsReset(post)
             /\ pre = again => post = [pre EXCEPT !.mLastCommandTime = 0]]_vars

\* The leader, which reset itself when it published HARD_TERMINATE for a
\* team that had its pose graphs, has handled its own HARD_TERMINATE and
\* is reset as it was.
LeaderResetTwice ==
  /\ ev.kind = "command" /\ ev.msg.command = "HARD_TERMINATE"
  /\ ev.robot = 0 /\ ev.msg.publishing_robot = 0
  /\ ev.msg.cluster_id = rs[0].mClusterID
  /\ IsReset(rs[0])
  /\ rs[0].hasOdometry
  /\ rs[0] = reset(rs[0], cfg.completeReset)

\* C18: the UPDATE a robot has handled, delivered to it once more, leaves
\* the robot as it is after the first delivery, with no further solver
\* step and nothing published.
DuplicateUpdateHarmless ==
  [][(ev'.kind = "command" /\ ev'.msg.command = "UPDATE") =>
       LET once == rs'[ev'.robot]
           again == commandCallback(once, cfg, ev'.msg, DefaultChoice, now')
       IN /\ again.s = once
          /\ again.step = "none"
          /\ again.out = <<>>]_vars


LeaderOnly == {"REQUEST_POSE_GRAPH", "INITIALIZE", "SET_ACTIVE_ROBOTS"}

FromNonLeader(pre, e) ==
  /\ e.kind = "command" /\ e.msg.command \in LeaderOnly
  /\ e.msg.publishing_robot # getClusterID(pre)

\* C21: a REQUEST_POSE_GRAPH, INITIALIZE or SET_ACTIVE_ROBOTS whose
\* publishing robot is not the leader of the receiver's cluster leaves the
\* receiver as it was and has nothing published.
NonLeaderCommandRejected ==
  [][FromNonLeader(rs[ev'.robot], ev') =>
       rs'[ev'.robot] = rs[ev'.robot] /\ ev'.out = <<>>]_vars


\* C22: an UPDATE whose executing_iteration is not the iteration number of
\* the receiver plus one leaves the receiver without a request of a step it
\* did not have, without a step, and with mTeamIterRequired as it was.
InconsistentUpdateRejected ==
  [][(/\ HandlesUpdate(rs[ev'.robot], ev')
      /\ ev'.msg.executing_iteration # rs[ev'.robot].mIterationNumber + 1) =>
       LET pre == rs[ev'.robot]
           post == rs'[ev'.robot]
       IN /\ post.mSynchronousOptimizationRequested =
               pre.mSynchronousOptimizationRequested
          /\ ev'.step = "none"
          /\ post.mTeamIterRequired = pre.mTeamIterRequired]_vars


\* C23: public poses of robot r that carry an iteration number lower than
\* the one the receiver holds as received from r leave the receiver as it
\* was, and no handler of public poses lowers mTeamIterReceived.
StalePosesDropped ==
  [][ev'.kind = "public_poses" =>
       LET pre == rs[ev'.robot]
           post == rs'[ev'.robot]
           r == ev'.msg.robot_id
       IN /\ ev'.msg.iteration_number < pre.mTeamIterReceived[r] => post = pre
          /\ \A q \in Robots :
               post.mTeamIterReceived[q] >= pre.mTeamIterReceived[q]]_vars


\* The weight messages among the messages a handler published.
WeightsPublished(e) ==
  {e.out[i] : i \in {j \in 1 .. Len(e.out) :
                       e.out[j].topic = "measurement_weights"}}

\* The measurements whose weight the handler changed.
WeightsChanged(pre, post) ==
  (pre.weights \ post.weights) \cup (post.weights \ pre.weights)

\* C24, as stated: every weight message published goes from a robot to a
\* robot of a lower ID, and a robot changes the weight of a measurement only
\* when the other robot of the measurement has a higher ID than its own.
WeightsFlowDownward ==
  [][/\ \A m \in WeightsPublished(ev') : m.robot_id > m.destination_robot_id
     /\ ev'.kind = "measurement_weights" =>
          \A e \in WeightsChanged(rs[ev'.robot], rs'[ev'.robot]) :
            OtherEnd(e, ev'.robot) > ev'.robot]_vars

\* C24, amended: every weight message published goes from a robot to a robot
\* of a higher ID and carries measurements the two share, and a robot
\* that handles a weight message changes the weight of a measurement only
\* when the message is addressed to it and the other robot of the
\* measurement has a lower ID than its own.
WeightsFlowUpward ==
  [][/\ \A m \in WeightsPublished(ev') :
          /\ m.robot_id = ev'.robot
          /\ m.robot_id < m.destination_robot_id
          /\ \A en \in m.entries :
               en.edge \in {<<m.robot_id, m.destination_robot_id>>}
     /\ ev'.kind = "measurement_weights" =>
          \A e \in WeightsChanged(rs[ev'.robot], rs'[ev'.robot]) :
            /\ ev'.msg.destination_robot_id = ev'.robot
            /\ e \in {en.edge : en \in ev'.msg.entries}
            /\ OtherEnd(e, ev'.robot) < ev'.robot]_vars

\* Robot 0 has handled UPDATE_WEIGHT and has published the weight of the
\* measurement it shares with robot 1 in a message for robot 1, and none for
\* a robot of a lower ID.
WeightsSentToHigherRobot ==
  /\ ev.kind = "command" /\ ev.msg.command = "UPDATE_WEIGHT" /\ ev.robot = 0
  /\ \E m \in WeightsPublished(ev) :
       /\ m.robot_id = 0 /\ m.destination_robot_id = 1
       /\ \E en \in m.entries : en.edge = <<0, 1>>
  /\ \A m \in WeightsPublished(ev) : m.destination_robot_id > 0


\* The handler in e is commandCallback on a command of the robot's own
\* cluster that is one of the periodic commands, or none of them.
Heartbeat == {"NOOP", "SET_ACTIVE_ROBOTS"}

AdmittedCommand(pre, e) ==
  e.kind = "command" /\ commandAdmitted(pre, e.msg)

\* runOnce took a successful optimizing step.
SteppedWithSuccess(e) ==
  e.kind = "runOnce" /\ e.step = "optimize" /\ e.success

\* C25, as stated: a command of the robot's cluster other than NOOP and
\* SET_ACTIVE_ROBOTS, and a successful step, each leave no time elapsed
\* since the last command and none since the last update; NOOP and
\* SET_ACTIVE_ROBOTS leave both as they were.
TimersResetTogether ==
  [][LET pre == rs[ev'.robot]
         post == rs'[ev'.robot]
     IN /\ (AdmittedCommand(pre, ev') /\ ev'.msg.command \notin Heartbeat) =>
             post.mLastCommandTime = 0 /\ ~(post.mLastUpdateTime > 0)
        /\ SteppedWithSuccess(ev') =>
             post.mLastCommandTime = 0 /\ ~(post.mLastUpdateTime > 0)
        /\ (AdmittedCommand(pre, ev') /\ ev'.msg.command \in Heartbeat) =>
             /\ post.mLastCommandTime = pre.mLastCommandTime
             /\ post.mLastUpdateTime = pre.mLastUpdateTime]_vars

\* C25, amended: a command of the robot's cluster other than NOOP and
\* SET_ACTIVE_ROBOTS restarts the time since the last command and leaves the
\* time since the last update, which it can only empty by a reset; a
\* successful step restarts the time since the last update, which the
\* checkTimeout of the same runOnce can only empty by a reset, and leaves
\* the time since the last command unless checkTimeout has acted on it;
\* NOOP and SET_ACTIVE_ROBOTS leave both.
TimersResetApart ==
  [][LET pre == rs[ev'.robot]
         post == rs'[ev'.robot]
     IN /\ (AdmittedCommand(pre, ev') /\ ev'.msg.command \notin Heartbeat) =>
             /\ post.mLastCommandTime = 0
             /\ post.mLastUpdateTime \in {pre.mLastUpdateTime, NoTime}
             /\ post.mLastUpdateTime # pre.mLastUpdateTime =>
                  post.mState = WAIT_FOR_DATA
        /\ SteppedWithSuccess(ev') =>
             /\ post.mLastUpdateTime \in {0, NoTime}
             /\ post.mLastUpdateTime = NoTime => post.mState = WAIT_FOR_DATA
             /\ IF pre.mLastCommandTime > cfg.timeoutThreshold
                THEN post.mLastCommandTime = 0
                ELSE post.mLastCommandTime = pre.mLastCommandTime
        /\ (AdmittedCommand(pre, ev') /\ ev'.msg.command \in Heartbeat) =>
             /\ post.mLastCommandTime = pre.mLastCommandTime
             /\ post.mLastUpdateTime = pre.mLastUpdateTime]_vars

\* Robot 0, some time after its last successful step, has handled a command
\* of its cluster that is neither NOOP nor SET_ACTIVE_ROBOTS: the time
\* since its last command starts again and the time since its last update
\* goes on.
CommandLeftUpdateTime ==
  /\ ev.kind = "command" /\ ev.msg.command \notin Heartbeat /\ ev.robot = 0
  /\ ev.msg.cluster_id = getClusterID(rs[0])
  /\ rs[0].mState = INITIALIZED
  /\ rs[0].mLastCommandTime = 0
  /\ rs[0].mLastUpdateTime > 0

\* The pass of the loop in e takes no step and finds the command channel of
\* the leader, INITIALIZED with mIterationNumber > 0, quiet for more than
\* timeoutThreshold.
LeaderSilence(pre, e) ==
  /\ e.kind = "runOnce" /\ e.step = "none"
  /\ isLeader(pre) /\ MidRound(pre)
  /\ pre.mLastCommandTime > cfg.timeoutThreshold

\* The messages `out' hold a SET_ACTIVE_ROBOTS that lists the robots of S.
Rebroadcasts(out, S) ==
  \E i \in DOMAIN out :
    /\ out[i].topic = "command" /\ out[i].command = "SET_ACTIVE_ROBOTS"
    /\ out[i].active_robots = S

\* C26, as stated: on the expiry of the command timeout the leader,
\* INITIALIZED with mIterationNumber > 0, publishes the active robots
\* without the disconnected ones it has removed, and then one RECOVER and
\* no HARD_TERMINATE when two or more robots are left active and recovery
\* is enabled, and HARD_TERMINATE and no RECOVER otherwise.
SilenceRecoversOrTerminates ==
  [][LeaderSilence(rs[ev'.robot], ev') =>
       LET pre == rs[ev'.robot]
           gone == disconnectedRobots(pre)
           left == ActiveRobotList(pre) \ gone
       IN /\ gone # {} => Rebroadcasts(ev'.out, left)
          /\ IF Cardinality(left) >= 2 /\ cfg.enableRecovery
             THEN RecoverCount(ev'.out) = 1 /\ ~Emits(ev'.out, "HARD_TERMINATE")
             ELSE RecoverCount(ev'.out) = 0 /\ Emits(ev'.out, "HARD_TERMINATE")
     ]_vars

\* C26, amended: on that expiry the leader publishes the active robots
\* without the disconnected ones when it has removed one, and not
\* otherwise; then one RECOVER when two or more robots are left active and
\* recovery is enabled, and HARD_TERMINATE and no RECOVER otherwise.  The
\* leader stays INITIALIZED with the robots left and a command timeout that
\* starts again, unless its hard timeout has expired too: then
\* HARD_TERMINATE is published in the same pass, after a RECOVER as well,
\* and the leader is reset.
SilenceRecoversUnlessStalled ==
  [][LeaderSilence(rs[ev'.robot], ev') =>
       LET pre == rs[ev'.robot]
           post == rs'[ev'.robot]
           gone == disconnectedRobots(pre)
           left == ActiveRobotList(pre) \ gone
           recovers == Cardinality(left) >= 2 /\ cfg.enableRecovery
           stalled == /\ pre.mLastUpdateTime # NoTime
                      /\ pre.mLastUpdateTime > 3 * cfg.timeoutThreshold
       IN /\ gone # {} => Rebroadcasts(ev'.out, left)
          /\ gone = {} => ~Emits(ev'.out, "SET_ACTIVE_ROBOTS")
          /\ RecoverCount(ev'.out) = IF recovers THEN 1 ELSE 0
          /\ Emits(ev'.out, "HARD_TERMINATE") <=> (~recovers \/ stalled)
          /\ IF stalled THEN post.mState = WAIT_FOR_DATA
             ELSE /\ post.mState = INITIALIZED
                  /\ ActiveRobotList(post) = left
                  /\ post.mLastCommandTime = 0]_vars

\* The leader has found the command channel quiet and its follower
\* disconnected: it has removed the follower, published the robots left and
\* HARD_TERMINATE, and no RECOVER.
LeaderTerminatedAlone ==
  /\ ev.kind = "runOnce" /\ ev.robot = 0 /\ ev.step = "none"
  /\ isLeader(rs[0]) /\ MidRound(rs[0])
  /\ ActiveRobotList(rs[0]) = {0}
  /\ Rebroadcasts(ev.out, {0})
  /\ Emits(ev.out, "HARD_TERMINATE")
  /\ RecoverCount(ev.out) = 0
  /\ rs[0].mLastCommandTime = 0


\* The pass of the loop in e takes no step and finds the command channel of
\* a robot that is not the leader of its cluster, INITIALIZED with
\* mIterationNumber > 0, quiet for more than timeoutThreshold.
FollowerSilence(pre, e) ==
  /\ e.kind = "runOnce" /\ e.step = "none"
  /\ ~isLeader(pre) /\ MidRound(pre)
  /\ pre.mLastCommandTime > cfg.timeoutThreshold

\* The commands among the messages `out'.
CommandsIn(out) == {i \in DOMAIN out : out[i].topic = "command"}

\* C27, as stated: on the expiry of the command timeout a robot that is not
\* the leader, INITIALIZED with mIterationNumber > 0, publishes no command;
\* when it is disconnected from the leader of its cluster it is reset, and
\* when it is connected to it the robot keeps every field but the time of
\* its last command, which starts again, and the request of its public
\* poses, which the pass has served.
FollowerSilenceResetsAlone ==
  [][FollowerSilence(rs[ev'.robot], ev') =>
       LET pre == rs[ev'.robot]
           post == rs'[ev'.robot]
       IN /\ CommandsIn(ev'.out) = {}
          /\ IF ~pre.mTeamConnected[getClusterID(pre)]
             THEN IsReset(post)
             ELSE post = [pre EXCEPT !.mLastCommandTime = 0,
                                     !.mPublishPublicPosesRequested = FALSE]
     ]_vars

\* C27, amended: on that expiry the robot publishes no command; it is reset
\* when it is disconnected from the leader of its cluster, and also when it
\* is connected to it and its hard timeout has expired too; otherwise it
\* keeps every field but the time of its last command and the request of
\* its public poses.
FollowerSilenceResetsUnlessStalled ==
  [][FollowerSilence(rs[ev'.robot], ev') =>
       LET pre == rs[ev'.robot]
           post == rs'[ev'.robot]
           stalled == /\ pre.mLastUpdateTime # NoTime
                      /\ pre.mLastUpdateTime > 3 * cfg.timeoutThreshold
       IN /\ CommandsIn(ev'.out) = {}
          /\ IF ~pre.mTeamConnected[getClusterID(pre)] \/ stalled
             THEN IsReset(post) /\ post.mLastCommandTime = 0
             ELSE post = [pre EXCEPT !.mLastCommandTime = 0,
                                     !.mPublishPublicPosesRequested = FALSE]
     ]_vars

\* Robot 1, in a round led by robot 0 it no longer reaches, has found the
\* command channel quiet and has been reset without a message, while robot
\* 0 goes on with the round.
FollowerResetAlone ==
  /\ ev.kind = "runOnce" /\ ev.robot = 1 /\ ev.step = "none"
  /\ ev.out = <<>>
  /\ IsReset(rs[1])
  /\ ~rs[1].mTeamConnected[0]
  /\ rs[1].mLastCommandTime = 0
  /\ rs[0].mState = INITIALIZED /\ rs[0].mIterationNumber > 0
  /\ 1 \in ActiveRobotList(rs[0])


\* Every active robot has reported INITIALIZED to the robot s.
AllReported(s) == ReportedInitialized(s) = ActiveRobotList(s)

\* The poll of the leader that finds the robots not all initialized and
\* retries left.
KeepsWaiting(pre) ==
  ~AllReported(pre) /\ pre.mInitStepsDone <= cfg.maxDistributedInitSteps

\* C28: a robot publishes INITIALIZE only as the leader that handles
\* REQUEST_POSE_GRAPH, or in its timer on a request; the request is made
\* only by the leader's poll that finds the active robots not all
\* INITIALIZED and mInitStepsDone within maxDistributedInitSteps; every
\* INITIALIZE published counts in mInitStepsDone, which stays within
\* maxDistributedInitSteps + 1; and a poll that makes no request publishes
\* the robots that are active, INITIALIZED and connected and an UPDATE for
\* the leader itself when two or more robots have reported INITIALIZED, and
\* HARD_TERMINATE and no UPDATE otherwise.
InitializationBounded ==
  [][LET pre == rs[ev'.robot]
         post == rs'[ev'.robot]
     IN /\ post.mInitStepsDone <= cfg.maxDistributedInitSteps + 1
        /\ Emits(ev'.out, "INITIALIZE") =>
             /\ \/ ev'.kind = "timer" /\ pre.mPublishInitializeCommandRequested
                \/ /\ ev'.kind = "command"
                   /\ ev'.msg.command = "REQUEST_POSE_GRAPH"
                   /\ isLeader(post)
             /\ post.mInitStepsDone >= 1
             /\ ~post.mPublishInitializeCommandRequested
        /\ (/\ post.mPublishInitializeCommandRequested
            /\ ~pre.mPublishInitializeCommandRequested) =>
             LeaderPolls(pre, ev') /\ KeepsWaiting(pre)
        /\ LeaderPolls(pre, ev') =>
             IF KeepsWaiting(pre)
             THEN /\ post.mPublishInitializeCommandRequested
                  /\ ~Emits(ev'.out, "UPDATE")
                  /\ ~Emits(ev'.out, "HARD_TERMINATE")
             ELSE IF Cardinality(ReportedInitialized(pre)) >= 2
                  THEN /\ ActiveRobotList(post) =
                            {q \in ReportedInitialized(pre) :
                               isRobotConnected(pre, q)}
                       /\ Rebroadcasts(ev'.out, ActiveRobotList(post))
                       /\ \E i \in DOMAIN ev'.out :
                            /\ ev'.out[i].topic = "command"
                            /\ ev'.out[i].command = "UPDATE"
                            /\ ev'.out[i].executing_robot = pre.id
                       /\ ~Emits(ev'.out, "HARD_TERMINATE")
                  ELSE /\ Emits(ev'.out, "HARD_TERMINATE")
                       /\ ~Emits(ev'.out, "UPDATE")]_vars

\* The leader, its retries used up and robot 2 still not initialized, has
\* left robot 2 out and has started the round with robot 1.
RoundStartedWithoutLaggard ==
  /\ ev.kind = "command" /\ ev.msg.command = "INITIALIZE" /\ ev.robot = 0
  /\ isLeader(rs[0])
  /\ rs[0].mInitStepsDone = cfg.maxDistributedInitSteps + 1
  /\ ActiveRobotList(rs[0]) = {0, 1}
  /\ rs[0].mTeamStatus[2] # INITIALIZED
  /\ Rebroadcasts(ev.out, {0, 1})
  /\ KicksOff(ev.out)
  /\ ~rs[0].mPublishInitializeCommandRequested


\* The handler in e is commandCallback on a REQUEST_POSE_GRAPH of the
\* robot's own cluster, published by the leader of that cluster.
HandlesRequest(pre, e) ==
  /\ e.kind = "command" /\ e.msg.command = "REQUEST_POSE_GRAPH"
  /\ commandAdmitted(pre, e.msg)
  /\ e.msg.publishing_robot = getClusterID(pre)

\* C29: a robot that handles the REQUEST_POSE_GRAPH of its leader ends in
\* WAIT_FOR_DATA with the robots of the command, and no others, active.  If
\* it was not in WAIT_FOR_DATA it has been reset first: iteration 0, no
\* iteration required or received, no status held, the times of the last
\* reset and update started again and emptied.  It has asked for its pose
\* graph and, when it got it, holds its measurements and the request to
\* initialize.  It publishes its Status, and then the leader publishes
\* INITIALIZE, counted once, when it got the pose graph and HARD_TERMINATE
\* when it did not, and a robot that is not the leader publishes no
\* command.
RequestPoseGraphHandled ==
  [][HandlesRequest(rs[ev'.robot], ev') =>
       LET pre == rs[ev'.robot]
           post == rs'[ev'.robot]
           fresh == pre.mState # WAIT_FOR_DATA
       IN /\ post.mState = WAIT_FOR_DATA
          /\ ActiveRobotList(post) = ev'.msg.active_robots
          /\ post.mClusterID = pre.mClusterID
          /\ fresh =>
               /\ post.mIterationNumber = 0
               /\ \A r \in Robots :
                    /\ post.mTeamIterRequired[r] = 0
                    /\ post.mTeamIterReceived[r] = 0
                    /\ post.mTeamStatusMsg[r] = NoMsg
               /\ ~post.mSynchronousOptimizationRequested
               /\ post.mLastResetTime = 0
               /\ post.mLastUpdateTime = NoTime
          /\ ~fresh =>
               /\ post.mIterationNumber = pre.mIterationNumber
               /\ post.mTeamIterRequired = pre.mTeamIterRequired
               /\ post.mTeamIterReceived = pre.mTeamIterReceived
               /\ post.mTeamStatusMsg = pre.mTeamStatusMsg
               /\ post.mLastResetTime = pre.mLastResetTime
          /\ Len(ev'.out) >= 1 /\ ev'.out[1] = StatusMsg(post, now')
          /\ \E got \in BOOLEAN :
               /\ got => /\ post.mTryInitializeRequested
                         /\ post.hasOdometry
                         /\ EdgesOf(cfg.graph, pre.id) \subseteq
                              post.measurements
               /\ ~got => /\ post.mTryInitializeRequested =
                               (~fresh /\ pre.mTryInitializeRequested)
                          /\ post.measurements \subseteq pre.measurements
               /\ IF ~isLeader(pre) THEN CommandsIn(ev'.out) = {}
                  ELSE IF got
                       THEN /\ Emits(ev'.out, "INITIALIZE")
                            /\ ~Emits(ev'.out, "HARD_TERMINATE")
                            /\ post.mInitStepsDone =
                                 (IF fresh THEN 0 ELSE pre.mInitStepsDone) + 1
                       ELSE /\ Emits(ev'.out, "HARD_TERMINATE")
                            /\ ~Emits(ev'.out, "INITIALIZE")]_vars

\* Robot 0, the leader, has handled its own REQUEST_POSE_GRAPH: it holds
\* the two robots of the command as active, has got its pose graph, and has
\* published its Status and its first INITIALIZE.
LeaderTookRequest ==
  /\ ev.kind = "command" /\ ev.msg.command = "REQUEST_POSE_GRAPH"
  /\ ev.robot = 0 /\ ev.msg.publishing_robot = 0 /\ ev.msg.cluster_id = 0
  /\ isLeader(rs[0])
  /\ rs[0].mState = WAIT_FOR_DATA
  /\ ev.msg.active_robots = {0, 1}
  /\ ActiveRobotList(rs[0]) = {0, 1}
  /\ rs[0].mTryInitializeRequested /\ rs[0].hasOdometry
  /\ rs[0].mInitStepsDone = 1
  /\ ev.out[1].topic = "status"
  /\ Emits(ev.out, "INITIALIZE") /\ ~Emits(ev.out, "HARD_TERMINATE")

\* The handler in e is commandCallback on a TERMINATE or HARD_TERMINATE of
\* the robot's own cluster.
HandlesTerminate(pre, e) ==
  /\ e.kind = "command" /\ e.msg.command \in {"TERMINATE", "HARD_TERMINATE"}
  /\ commandAdmitted(pre, e.msg)

\* C30: a robot that handles TERMINATE or HARD_TERMINATE, whatever its
\* state and active or not, ends in WAIT_FOR_DATA at iteration 0 with no
\* step requested.  HARD_TERMINATE, and TERMINATE at an inactive robot,
\* leave the cached trajectory as it was and publish nothing; TERMINATE at
\* an active robot stores the trajectory, which an INITIALIZED robot has,
\* before the reset, and the stored trajectory outlives the reset.
TerminateResets ==
  [][HandlesTerminate(rs[ev'.robot], ev') =>
       LET pre == rs[ev'.robot]
           post == rs'[ev'.robot]
           finalizes == /\ ev'.msg.command = "TERMINATE"
                        /\ isRobotActive(pre, pre.id)
       IN /\ post.mState = WAIT_FOR_DATA
          /\ post.mIterationNumber = 0
          /\ ~post.mSynchronousOptimizationRequested
          /\ ev'.step = "none"
          /\ CommandsIn(ev'.out) = {}
          /\ IF finalizes
             THEN post.mCachedPoses =
                    (pre.mCachedPoses \/ pre.mState = INITIALIZED)
             ELSE /\ post.mCachedPoses = pre.mCachedPoses
                  /\ ev'.out = <<>>]_vars

\* Robot 1 has handled the TERMINATE its leader published at the end of the
\* round: it is back in WAIT_FOR_DATA at iteration 0 with no step requested
\* and holds the trajectory it stored.
FollowerTerminatedWithTrajectory ==
  /\ ev.kind = "command" /\ ev.msg.command = "TERMINATE" /\ ev.robot = 1
  /\ ev.origin = "net" /\ ev.msg.publishing_robot = 0
  /\ ev.msg.cluster_id = getClusterID(rs[1])
  /\ isRobotActive(rs[1], 1)
  /\ rs[1].mState = WAIT_FOR_DATA /\ rs[1].mIterationNumber = 0
  /\ ~rs[1].mSynchronousOptimizationRequested
  /\ rs[1].mCachedPoses
  /\ rs[1].mLastResetTime = 0

\* Some active neighbour of robot s fails the test of runOnceSynchronous.
Blocked(s) ==
  \E nb \in activeNeighborIDs(s) :
    s.mTeamIterReceived[nb] < requiredIter(s, cfg, nb)

\* The handler in e is a pass of the loop of a robot whose step is requested
\* while a neighbour fails the test.
DeferredPass(pre, e) ==
  /\ e.kind = "runOnce"
  /\ pre.mSynchronousOptimizationRequested
  /\ Blocked(pre)

\* What runOnceSynchronous publishes after a step: the anchor, the Status
\* and the command that passes the turn on.
StepPublications(out) ==
  {i \in DOMAIN out :
     \/ out[i].topic \in {"status", "anchor"}
     \/ /\ out[i].topic = "command"
        /\ out[i].command \in {"UPDATE", "UPDATE_WEIGHT", "TERMINATE"}}

\* C31, as stated: a pass of the loop that finds the step requested and a
\* neighbour failing the test takes no step, leaves the iteration number,
\* publishes nothing of a step and leaves the request armed; a pass that
\* finds the step requested and no neighbour failing the test takes it.
DeferredStepStaysArmed ==
  [][LET pre == rs[ev'.robot]
         post == rs'[ev'.robot]
     IN /\ DeferredPass(pre, ev') =>
             /\ ev'.step = "none"
             /\ StepPublications(ev'.out) = {}
             /\ post.mIterationNumber = pre.mIterationNumber
             /\ post.mSynchronousOptimizationRequested
        /\ (/\ ev'.kind = "runOnce"
            /\ pre.mSynchronousOptimizationRequested
            /\ ~Blocked(pre)) =>
             /\ ev'.step = "optimize"
             /\ ~post.mSynchronousOptimizationRequested]_vars

\* C31, amended: such a pass takes no step and publishes nothing of a step,
\* and runOnceSynchronous leaves the robot as it was: the robot after the
\* pass is what checkTimeout, which ends the pass, makes of it.  The request
\* stays armed and the iteration number stays unless checkTimeout resets the
\* robot.  A pass that finds the step requested and no neighbour failing
\* the test takes the step.
DeferredStepArmedUnlessReset ==
  [][LET pre == rs[ev'.robot]
         post == rs'[ev'.robot]
         rest == checkTimeout(
                   [pre EXCEPT !.mPublishPublicPosesRequested = FALSE], cfg)
     IN /\ DeferredPass(pre, ev') =>
             /\ ev'.step = "none"
             /\ StepPublications(ev'.out) = {}
             /\ post = rest.s
             /\ \/ /\ post.mSynchronousOptimizationRequested
                   /\ post.mIterationNumber = pre.mIterationNumber
                \/ post = reset(post, cfg.completeReset)
        /\ (/\ ev'.kind = "runOnce"
            /\ pre.mSynchronousOptimizationRequested
            /\ ~Blocked(pre)) =>
             /\ ev'.step = "optimize"
             /\ ~post.mSynchronousOptimizationRequested]_vars

\* The leader, its step requested and its neighbour behind, has passed
\* through its loop without stepping: the request is still armed.
LeaderStillWaiting ==
  /\ ev.kind = "runOnce" /\ ev.robot = 0 /\ ev.step = "none"
  /\ rs[0].mState = INITIALIZED
  /\ rs[0].mSynchronousOptimizationRequested
  /\ Blocked(rs[0])

\* The commands of `out' that pass the turn on after a step.
SchedulingCommands(out) ==
  {i \in DOMAIN out :
     /\ out[i].topic = "command"
     /\ out[i].command \in {"UPDATE", "UPDATE_WEIGHT", "TERMINATE"}}

PublisherView(pre, post, e) == IF e.kind = "runOnce" THEN pre ELSE post

\* C33: the executing robot of every UPDATE command a robot publishes is
\* active and initialized in the view of the publisher, whichever call
\* publishes it; a robot that selects itself publishes the UPDATE like any
\* other.
UpdateNamesCandidate ==
  [][\A i \in DOMAIN ev'.out :
       (ev'.out[i].topic = "command" /\ ev'.out[i].command = "UPDATE") =>
          LET view == PublisherView(rs[ev'.robot], rs'[ev'.robot], ev')
          IN /\ isRobotActive(view, ev'.out[i].executing_robot)
             /\ isRobotInitialized(view, ev'.out[i].executing_robot)]_vars

\* Robot 1 has stepped and drawn itself under the uniform rule: it has
\* published the UPDATE that names it, and it is active and initialized
\* in its own view.
SelfSelectedAfterStep ==
  /\ cfg.updateRule = "Uniform"
  /\ ev.kind = "runOnce" /\ ev.robot = 1 /\ ev.step = "optimize"
  /\ \E i \in DOMAIN ev.out :
       /\ ev.out[i].topic = "command" /\ ev.out[i].command = "UPDATE"
       /\ ev.out[i].executing_robot = 1
  /\ isRobotActive(rs[1], 1) /\ isRobotInitialized(rs[1], 1)

\* The leader, robot 0, has handled UPDATE_WEIGHT in the middle of a round
\* and passed the turn on: the UPDATE it has published names robot 1, which
\* is active and initialized in the leader's view.
LeaderPassedTurnAfterWeights ==
  /\ ev.kind = "command" /\ ev.msg.command = "UPDATE_WEIGHT" /\ ev.robot = 0
  /\ isLeader(rs[0]) /\ rs[0].mState = INITIALIZED
  /\ \E i \in DOMAIN ev.out :
       /\ ev.out[i].topic = "command" /\ ev.out[i].command = "UPDATE"
       /\ ev.out[i].executing_robot = 1
  /\ isRobotActive(rs[0], 1) /\ isRobotInitialized(rs[0], 1)

\* The Command and Status messages among `out'.
TaggedMessages(out) ==
  {i \in DOMAIN out : out[i].topic \in {"command", "status"}}

\* C34: mClusterID changes only in a step that finds the robot in
\* WAIT_FOR_DATA and leaves it there, and every Command and Status a robot
\* publishes outside WAIT_FOR_DATA carries the mClusterID it has had since
\* it left WAIT_FOR_DATA, whatever its connectivity has become.
ClusterPinnedInRound ==
  [][/\ \A r \in Robots :
          rs'[r].mClusterID # rs[r].mClusterID =>
            /\ rs[r].mState = WAIT_FOR_DATA
            /\ rs'[r].mState = WAIT_FOR_DATA
     /\ rs[ev'.robot].mState # WAIT_FOR_DATA =>
          \A i \in TaggedMessages(ev'.out) :
            ev'.out[i].cluster_id = rs[ev'.robot].mClusterID]_vars

\* Robot 1 has lost its leader, robot 0, in the middle of the round: its
\* timer has fired, and the NOOP and the Status it has published carry the
\* cluster of robot 0, in which robot 1 stays.
FollowerKeptClusterOffline ==
  /\ ev.kind = "timer" /\ ev.robot = 1
  /\ rs[1].mState = INITIALIZED /\ rs[1].mIterationNumber > 0
  /\ rs[1].mClusterID = 0
  /\ ~isRobotConnected(rs[1], 0)
  /\ TaggedMessages(ev.out) # {}
  /\ \A i \in TaggedMessages(ev.out) : ev.out[i].cluster_id = 0

\* The robots of cluster k whose requested step is pending.
Armed(k) ==
  {r \in Robots :
     rs[r].mClusterID = k /\ rs[r].mSynchronousOptimizationRequested}

\* C35: at any time at most one robot of a cluster has its step requested.
SingleUpdateToken == \A k \in Robots : Cardinality(Armed(k)) <= 1

\* The active robots of the last SET_ACTIVE_ROBOTS command among `out'.
LastBroadcast(out) ==
  LET at == {i \in DOMAIN out :
               out[i].topic = "command" /\ out[i].command = "SET_ACTIVE_ROBOTS"}
      last == CHOOSE i \in at : \A j \in at : j <= i
  IN out[last].active_robots

\* C36: when the leader, in its INITIALIZE handler, publishes the UPDATE
\* that starts a round, the active robots it has broadcast just before are
\* its own active robots, at least 2 of them, the leader among them.
KickOffHasTeam ==
  [][(LeaderPolls(rs[ev'.robot], ev') /\ KicksOff(ev'.out)) =>
       LET post == rs'[ev'.robot]
       IN /\ Emits(ev'.out, "SET_ACTIVE_ROBOTS")
          /\ LastBroadcast(ev'.out) = ActiveRobotList(post)
          /\ post.id \in LastBroadcast(ev'.out)
          /\ Cardinality(LastBroadcast(ev'.out)) >= 2]_vars

\* Robot s has been reset and has received no pose graph since: it is in
\* WAIT_FOR_DATA with no tryInitialize requested.
IdleSinceReset(s) == s.mState = WAIT_FOR_DATA /\ ~s.mTryInitializeRequested

\* The handler that led from pre to post has reset the robot.
HasReset(pre, post) ==
  /\ pre.mState # WAIT_FOR_DATA
  /\ post.mState = WAIT_FOR_DATA
  /\ post.mLastResetTime = 0

\* C37: a handler that resets the robot leaves no INITIALIZE command
\* requested, and the timer of a robot that has been reset and has received
\* no pose graph since publishes no INITIALIZE command.
ResetCancelsInitialize ==
  [][LET pre == rs[ev'.robot]
         post == rs'[ev'.robot]
     IN /\ HasReset(pre, post) => ~post.mPublishInitializeCommandRequested
        /\ (ev'.kind = "timer" /\ IdleSinceReset(pre)) =>
             ~Emits(ev'.out, "INITIALIZE")]_vars

\* Robot s is a leader in WAIT_FOR_DATA that has another connected robot
\* recorded in its cluster.
IdleLeader(s) ==
  /\ s.mState = WAIT_FOR_DATA
  /\ isLeader(s)
  /\ \E q \in Robots \ {s.id} :
       isRobotConnected(s, q) /\ getRobotClusterID(s, q) = s.id

\* The timer of robot r has just published REQUEST_POSE_GRAPH.
Requested(r) ==
  ev.kind = "timer" /\ ev.robot = r /\ Emits(ev.out, "REQUEST_POSE_GRAPH")

\* C38: for every timeoutThreshold, a leader in WAIT_FOR_DATA that has
\* another connected robot recorded in its cluster and stays in WAIT_FOR_DATA
\* eventually publishes REQUEST_POSE_GRAPH from its timer.
IdleLeaderEventuallyRequests ==
  \A r \in FaultParams.launched :
    IdleLeader(rs[r]) ~> (Requested(r) \/ rs[r].mState # WAIT_FOR_DATA)

\* C39: every call of publishUpdateCommand() finds a robot that is active
\* and initialized: no robot is ever inside the round-robin scan without a
\* candidate, nor samples from an empty list.
SelectionTerminates == \A r \in Robots : ~rs[r].hung

\* C40: a handler of a Status writes the cluster records at a position in
\* [0, numRobots) only, whatever the robot_id and cluster_id of the message.
ClusterRecordIndexInRange ==
  [][ev'.kind = "status" =>
       setRobotClusterIDIndex(ev'.msg.robot_id, ev'.msg.cluster_id)
         \subseteq Robots]_vars

=============================================================================
